---- MODULE Spec2Model ----
(***************************************************************************)
(* A model of tdf, a terminal PDF viewer: the Renderer thread              *)
(* (src/src/renderer.rs), the Converter task (src/src/converter.rs), the   *)
(* UI event loop (src/src/main.rs, src/src/tui.rs), the Kitty display      *)
(* driver (src/src/kitty.rs) and the prerender order iterator              *)
(* (src/src/skip.rs), connected by unbounded FIFO channels.                *)
(*                                                                         *)
(* Pages are numbered from 0 as in the source; the per-page tables are     *)
(* sequences, so page p lives at index p + 1.                              *)
(***************************************************************************)
EXTENDS Integers, Sequences, FiniteSets, TLC

VARIABLES
  disk,    \* the file on disk: its page count, 0 when it cannot be opened
  rd,      \* the Renderer: locals of start_rendering and its position
  ui,      \* the UI: the Tui struct and the locals of enter_redraw_loop
  cv,      \* the Converter: locals of run_conversion_loop and its position
  toR,     \* channel of RenderNotif, UI and watcher -> Renderer
  fromR,   \* channel of Result<RenderInfo, RenderError>, Renderer -> UI
  toC,     \* channel of ConverterMsg, UI -> Converter
  fromC,   \* channel of Result<ConvertedPage, RenderError>, Converter -> UI
  env,     \* the number of acts left to the environment (see MaxActs)
  last     \* history: what the step that led here did (never read by the program)

vars == <<disk, rd, ui, cv, toR, fromR, toC, fromC, env, last>>

----------------------------------------------------------------------------
(* Bounds of the model *)

\* largest page count of a file on disk
MaxPages == 2
\* largest prerender limit the user may have passed with -p
MaxLimit == 2
\* largest number the user types after g
MaxGoTo == 4
\* longest search term the user types
MaxTermLen == 1
\* largest page count of a document whose search sweep is computed alone
MaxDocPages == 41
\* in a behaviour the environment acts at most this often: an act is an
\* event of the user outside of a prompt (the keys typed into a prompt are
\* bounded by MaxTermLen and MaxGoTo), a replacement of the file on disk, or
\* a frame whose requests the terminal fails
MaxActs == 2

----------------------------------------------------------------------------
(* Program constants *)

\* renderer.rs: const SEARCH_AT_TIME
SEARCH_AT_TIME == 20
\* renderer.rs: pages taken per pass while a search is unfinished
SEARCH_PASS_TAKE == 20
\* main.rs: the prerender argument handed to run_conversion_loop
CONVERTER_PRERENDER == 20

\* Option<usize>::None for num_search_found and num_results
NoCount == -1

\* lib.rs: enum FitOrFill
Fit == 0
Fill == 1

----------------------------------------------------------------------------
(* The documents.  A document is identified by its page count; the text   *)
(* of page p is the same in every document that has a page p.             *)

\* number of hits of a search term on a page, as mupdf's search_cb reports
HitCount(term, p) ==
  IF term = <<>> THEN 0
  ELSE IF Head(term) = "a" THEN 1
  ELSE (IF p = 0 THEN 2 ELSE 0)

----------------------------------------------------------------------------
(* Vec helpers *)

clear(v) == SubSeq(v, 1, 0)

resize_with(v, size, d) ==
  IF Len(v) >= size THEN SubSeq(v, 1, size)
  ELSE v \o [i \in 1..(size - Len(v)) |-> d]

\* a fill_default that forgets to clear the vector first
fill_default_noclear(v, size, d) == resize_with(v, size, d)

fill_default(v, size, d) == resize_with(clear(v), size, d)

Min(a, b) == IF a < b THEN a ELSE b
Max(a, b) == IF a > b THEN a ELSE b
\* usize::saturating_sub
SatSub(a, b) == IF a >= b THEN a - b ELSE 0

\* `let x = v;` followed by F(x): v is computed once
Once(v, F(_)) == CHOOSE r \in {F(x) : x \in {v}} : TRUE

----------------------------------------------------------------------------
(* skip.rs: InterleavedAroundWithMax *)

\* self.next_change before the call number i (calls are numbered from 0):
\* it starts at 0 and is advanced by one, modulo exclusive_max, after every
\* Minus call, and the calls 0, 2, 4, ... are the Minus calls, so (i + 1) \div 2
\* advances have been made
NextChangeAt(i, exclusive_max) == ((i + 1) \div 2) % exclusive_max

\* the value returned by call number i of next()
InterleavedNext(around, inclusive_min, exclusive_max, i) ==
  LET actual_change == NextChangeAt(i, exclusive_max) % (exclusive_max - inclusive_min)
      plus == i % 2 = 1
  IN IF plus
     THEN LET next_val == around + actual_change
          IN IF next_val < exclusive_max THEN next_val
             ELSE (next_val % exclusive_max) + inclusive_min
     ELSE IF around >= actual_change
          THEN LET next_val == around - actual_change
               IN IF next_val >= inclusive_min THEN next_val
                  ELSE exclusive_max - (inclusive_min - next_val)
          ELSE exclusive_max - (actual_change - (around - inclusive_min))

\* usize, scaled down to UsizeBits bits
UsizeBits == 3
UsizeMax == (2 ^ UsizeBits) - 1
Wrapped(n) == (n + (2 ^ UsizeBits)) % (2 ^ UsizeBits)

\* the outcome of an arithmetic overflow: a panic in a build with overflow
\* checks, the wrapped value in one without
Panic == -1
Overflowing(n) == {Panic, Wrapped(n)}

\* InterleavedAroundWithMax::new (skip.rs 44-58)
IterNew(around, inclusive_min, exclusive_max) ==
  [around |-> around, inclusive_min |-> inclusive_min,
   exclusive_max |-> exclusive_max, next_change |-> 0, next_op |-> "Minus",
   pc |-> "iter"]

\* InterleavedAroundWithMax::next, the value returned (skip.rs 63-98): the
\* values the builds can return, Panic among them when one of them panics
IterReturns(it) ==
  LET actual_change == it.next_change % (it.exclusive_max - it.inclusive_min)
      sum == it.around + actual_change
      rest == actual_change - (it.exclusive_max - actual_change)
  IN IF it.next_op = "Plus"
     THEN IF sum <= UsizeMax
          THEN IF sum < it.exclusive_max THEN {sum}
               ELSE {(sum % it.exclusive_max) + it.inclusive_min}
          ELSE IF rest < 0
               THEN {IF v = Panic THEN Panic ELSE Wrapped(v + it.inclusive_min) :
                       v \in Overflowing(rest)}
               ELSE IF rest + it.inclusive_min > UsizeMax
                    THEN Overflowing(rest + it.inclusive_min)
                    ELSE {rest + it.inclusive_min}
     ELSE IF it.around >= actual_change
          THEN IF it.around - actual_change >= it.inclusive_min
               THEN {it.around - actual_change}
               ELSE {it.exclusive_max - (it.inclusive_min - (it.around - actual_change))}
          ELSE {it.exclusive_max - (actual_change - (it.around - it.inclusive_min))}

\* InterleavedAroundWithMax::next, the iterator afterwards (skip.rs 100-106)
IterAdvanced(it) ==
  IF it.next_op = "Plus" THEN [it EXCEPT !.next_op = "Minus"]
  ELSE [it EXCEPT !.next_change = (it.next_change + 1) % it.exclusive_max,
                  !.next_op = "Plus"]

----------------------------------------------------------------------------
(* Messages *)

\* RenderNotif: n carries a page number, an area width or a FitOrFill, s a
\* search term (a sequence of characters)
RenderNotif(t, n, s) == [t |-> t, n |-> n, s |-> s]
\* RenderInfo or RenderError: a is a page number or page count, b a count
RenderInfo(t, a, b) == [t |-> t, a |-> a, b |-> b]
\* ConverterMsg
ConverterMsg(t, a, b) == [t |-> t, a |-> a, b |-> b]
\* Result<ConvertedPage, RenderError>
ConvertedPage(t, num, num_results) == [t |-> t, a |-> num, b |-> num_results]

----------------------------------------------------------------------------
(* History records *)

\* InputAction, None when handle_event returns None
Act(t, n, s) == [t |-> t, n |-> n, s |-> s]
ActNone == Act("None", 0, <<>>)
ActRedraw == Act("Redraw", 0, <<>>)

\* the error display_kitty_images returns: the class of the error kept, the
\* pages to replace and the description; class none stands for Ok(())
NoErr == [class |-> "none", pages |-> <<>>, desc |-> ""]

\* a terminal event: a key, a mouse scroll or a resize
Event(k, c, w) == [k |-> k, c |-> c, w |-> w]
NoEvent == Event("none", "", 0)

\* the history record of a step: who took it, what it did, the message or
\* event it consumed, and for a turn of the UI loop the frame it drew, the
\* Kitty requests it made and the messages it sent; prev is the Page Buffer
\* a NumPages replaced and page_before the current page before the turn.
\* Two sets of pages are kept from step to step: transmitted, the pages with
\* a successful TransmitAndDisplay and no PageNeedsReRender sent since, and
\* held, those of them whose slot has not been overwritten since either;
\* transmitted_then and held_then are these sets when the frame of the turn
\* was drawn
\* what a frame was drawn from: the current page, the pages with an image,
\* the width of the page area, whether the view was zoomed and whether the
\* help page was shown
NoView == [page |-> 0, ready |-> {}, w |-> 0, zoom |-> FALSE, help |-> FALSE]

LastInit ==
  [who |-> "", act |-> "init", n |-> 0, ops |-> <<>>,
   frame |-> "none", sentR |-> <<>>, sentC |-> <<>>, err |-> NoErr,
   ev |-> NoEvent, action |-> ActNone, before |-> <<>>, prev |-> <<>>,
   page_before |-> 0, transmitted |-> {}, held |-> {},
   transmitted_then |-> {}, held_then |-> {}, list |-> <<>>, used |-> 0,
   clear |-> "none", view |-> NoView]

LastRec(who, act, n, ops) ==
  [LastInit EXCEPT !.who = who, !.act = act, !.n = n, !.ops = ops,
                   !.transmitted = last.transmitted, !.held = last.held]

\* the pages a frame has transmitted successfully
TransmittedOk(ops) ==
  {ops[i].slot : i \in {j \in 1..Len(ops) :
                          ops[j].op = "TransmitAndDisplay" /\ ops[j].res = "ok"}}

\* the pages PageNeedsReRender is sent for after a frame
AskedAgain(err) == {err.pages[i] : i \in 1..Len(err.pages)}

\* stored: the pages whose slot the turn has overwritten before its frame
LastUi(act, n, t, sentR, sentC, ev, action, stored) ==
  [LastInit EXCEPT !.who = "U", !.act = act, !.n = n, !.ops = t.ops,
                   !.frame = t.frame, !.sentR = sentR, !.sentC = sentC,
                   !.err = t.err, !.ev = ev, !.action = action,
                   !.page_before = ui.page,
                   !.list = t.list, !.used = t.used, !.clear = t.clear,
                   !.view = t.view,
                   !.transmitted_then = last.transmitted,
                   !.held_then = last.held \ stored,
                   !.transmitted = (last.transmitted \cup TransmittedOk(t.ops))
                                     \ AskedAgain(t.err),
                   !.held = ((last.held \ stored) \cup TransmittedOk(t.ops))
                              \ AskedAgain(t.err)]

----------------------------------------------------------------------------
(* renderer.rs: start_rendering *)

PrevRenderDefault == [successful |-> FALSE, num_search_found |-> NoCount]

\* a pass that always goes over the whole document
TakeCountAll(r) == r.n_pages

\* the argument of .take() on the prerender order, renderer.rs 276-292
TakeCount(r) ==
  IF r.prerender > 0 THEN r.prerender
  ELSE IF r.search_term = <<>> THEN r.n_pages
  ELSE IF \E i \in 1..Len(r.rendered) : r.rendered[i].num_search_found = NoCount
       THEN SEARCH_PASS_TAKE
       ELSE r.n_pages

\* a restart that goes on with the page iterator it had
RestartRenderResumes(r) ==
  IF r.preserved_area = 0
  THEN [r EXCEPT !.pc = "waitArea"]
  ELSE [r EXCEPT !.pc = "pass", !.take_n = TakeCount(r)]

\* `continue 'render_pages`: back to the top of the render loop, where a new
\* page iterator is built once the area is known
RestartRender(r) ==
  IF r.preserved_area = 0
  THEN [r EXCEPT !.pc = "waitArea"]
  ELSE [r EXCEPT !.pc = "pass", !.iter = 0, !.take_n = TakeCount(r)]

\* an Invert or Rotate that leaves the pages as they are
ClearSuccessfulKeeps(rendered) == rendered

\* renderer.rs 201-203 and 258-260: every page is to be rendered again
ClearSuccessful(rendered) ==
  [i \in 1..Len(rendered) |-> [rendered[i] EXCEPT !.successful = FALSE]]

RotateNext(rot) == (rot + 90) % 360

\* a Search("") that leaves the pages as they are
TermDroppedLazily(rendered) == rendered

\* renderer.rs 232-237, Search(""): the pages with results are to be rendered
\* again, without highlights
TermDropped(rendered) ==
  [i \in 1..Len(rendered) |->
     IF rendered[i].num_search_found > 0
     THEN [successful |-> FALSE, num_search_found |-> 0]
     ELSE rendered[i]]

\* a Search(term) that keeps the counts of the term before
TermSetKeep(rendered) == rendered

\* renderer.rs 244-246, Search(term): no count is known for the new term
TermSet(rendered) ==
  [i \in 1..Len(rendered) |-> [rendered[i] EXCEPT !.num_search_found = NoCount]]

\* a JumpToPage after which every page is rendered again
JumpToClearing(r, page) ==
  [r EXCEPT !.start_point = page, !.rendered = ClearSuccessful(r.rendered)]

\* renderer.rs 218-221, JumpToPage(page): the prerender order is centred on
\* the page
JumpTo(r, page) == [r EXCEPT !.start_point = page]

\* a PageNeedsReRender that marks the page and does not queue it
NeedsReRenderUnqueued(r, page) ==
  [r EXCEPT !.rendered[page + 1].successful = FALSE]

\* renderer.rs 222-225, PageNeedsReRender(page): the page is marked and
\* pushed to the back of need_rerender
NeedsReRender(r, page) ==
  [r EXCEPT !.rendered[page + 1].successful = FALSE,
            !.need_rerender = Append(r.need_rerender, page)]

\* the handle_notif! macro; ctx is where it is expanded: "pass" (after a
\* page), "sweep" (in the search sweep) or "idle" (after the blocking recv)
handle_notif(r, m, ctx) ==
  CASE m.t = "Reload" -> [r EXCEPT !.pc = "open"]
    [] m.t = "Invert" ->
         RestartRender([r EXCEPT !.invert = ~r.invert,
                                 !.rendered = ClearSuccessful(r.rendered)])
    [] m.t = "Area" ->
         RestartRender([r EXCEPT !.preserved_area = m.n,
                                 !.rendered = fill_default(r.rendered, r.n_pages, PrevRenderDefault)])
    [] m.t = "SwitchFitOrFill" ->
         IF m.n # r.fit_or_fill
         THEN RestartRender([r EXCEPT !.fit_or_fill = m.n,
                                      !.rendered = fill_default(r.rendered, r.n_pages, PrevRenderDefault)])
         ELSE IF ctx = "idle" THEN RestartRender(r)
         ELSE [r EXCEPT !.pc = ctx]
    [] m.t = "JumpToPage" ->
         RestartRender(JumpTo(r, m.n))
    [] m.t = "PageNeedsReRender" ->
         IF m.n >= Len(r.rendered)
         THEN [r EXCEPT !.pc = "panicked", !.oob = m.n]
         ELSE RestartRender(NeedsReRender(r, m.n))
    [] m.t = "Search" ->
         IF m.s = <<>>
         THEN RestartRender([r EXCEPT !.rendered = TermDropped(r.rendered),
                                      !.search_term = <<>>])
         ELSE RestartRender([r EXCEPT !.rendered = TermSet(r.rendered),
                                      !.search_term = m.s])
    [] m.t = "Rotate" ->
         RestartRender([r EXCEPT !.rotate = RotateNext(r.rotate),
                                 !.rendered = ClearSuccessful(r.rendered)])

\* the for loop over page_iter up to the next page that is not skipped:
\* need_rerender is drained first (PopOnNext), then the prerender order
\* follows.  order is what the iterator still yields, at the first page of
\* it that is not skipped (renderer.rs 303-305) or lies outside of
\* `rendered`.  page = -1: iterator exhausted; page = -2: rendered[page_num]
\* out of range
NextToRender(r) ==
  LET queued == Len(r.need_rerender)
      skipped(p) == /\ p < Len(r.rendered)
                    /\ r.rendered[p + 1].successful
                    /\ r.rendered[p + 1].num_search_found # NoCount
      taken(at) == [r EXCEPT !.need_rerender = SubSeq(r.need_rerender, at + 1, queued),
                             !.iter = r.iter + SatSub(at, queued)]
      first(order) ==
        Once({j \in 1..Len(order) : ~skipped(order[j])},
             LAMBDA stops :
               IF stops = {} THEN [r |-> taken(Len(order)), page |-> -1]
               ELSE Once(CHOOSE j \in stops : \A k \in stops : j <= k,
                         LAMBDA at :
                           IF order[at] >= Len(r.rendered)
                           THEN [r |-> [taken(at) EXCEPT !.oob = order[at]], page |-> -2]
                           ELSE [r |-> taken(at), page |-> order[at]]))
  IN Once(r.need_rerender \o
            [i \in 1..SatSub(r.take_n, r.iter) |->
               InterleavedNext(r.start_point, 0, r.n_pages, r.iter + i - 1)],
          first)

\* render_single_page_to_ctx: the number of result_rects of the page
ResultRects(r, page_num) ==
  IF r.rendered[page_num + 1].num_search_found = 0 THEN 0
  ELSE HitCount(r.search_term, page_num)

\* renderer.rs 445-458: after the sweep, start another pass or block
AfterSweep(r) ==
  IF (\E i \in 1..Len(r.rendered) : ~r.rendered[i].successful) /\ r.prerender = 0
  THEN RestartRender(r)
  ELSE [r EXCEPT !.pc = "idle"]

\* renderer.rs 372-373: after the for loop
AfterPass(r) ==
  IF r.search_term # <<>>
  THEN [r EXCEPT !.pc = "sweep", !.search_start = r.start_point]
  ELSE AfterSweep(r)

\* the pages a sweep iteration counts: the unknown ones among at most
\* SEARCH_AT_TIME pages from search_start, in increasing order
SweepBatch(r) ==
  LET hi == Min(r.search_start + SEARCH_AT_TIME, Len(r.rendered))
      cand == [i \in 1..SatSub(hi, r.search_start) |-> r.search_start + i - 1]
  IN SelectSeq(cand, LAMBDA p : r.rendered[p + 1].num_search_found = NoCount)

\* a Renderer that forgets the document it holds when the open fails
DocServedNoCache(d, stored) == d

\* renderer.rs 117-145: the document the Renderer goes on with after the
\* open, 0 for none: the one opened, or else the one it has stored
DocServed(d, stored) == IF d # 0 THEN d ELSE stored

RenderOpen ==
  /\ rd.pc = "open"
  /\ LET ok == disk # 0
         errs == IF ok THEN <<>> ELSE <<RenderInfo("Err", 0, 0)>>
         doc == DocServed(disk, rd.stored_doc)
         reloaded == IF ok /\ rd.stored_doc # 0
                     THEN <<RenderInfo("Reloaded", 0, 0)>> ELSE <<>>
     IN IF doc = 0
        THEN /\ rd' = [rd EXCEPT !.pc = "waitReload"]
             /\ fromR' = fromR \o errs
        ELSE /\ rd' = RestartRender([rd EXCEPT
                        !.stored_doc = doc, !.n_pages = doc,
                        !.rendered = fill_default(<<>>, doc, PrevRenderDefault),
                        !.start_point = 0, !.sent = {}])
             /\ fromR' = fromR \o errs \o reloaded \o <<RenderInfo("NumPages", doc, 0)>>
  /\ last' = LastRec("R", "open", disk, <<>>)
  /\ UNCHANGED <<disk, ui, cv, toR, toC, fromC, env>>

\* renderer.rs 127-132: every message but Reload is dropped
RenderWaitReload ==
  /\ rd.pc = "waitReload"
  /\ toR # <<>>
  /\ toR' = Tail(toR)
  /\ rd' = IF Head(toR).t = "Reload" THEN [rd EXCEPT !.pc = "open"] ELSE rd
  /\ last' = [LastRec("R", "waitReload", 0, <<>>) EXCEPT !.before = <<Head(toR)>>]
  /\ UNCHANGED <<disk, ui, cv, fromR, toC, fromC, env>>

\* renderer.rs 181-189: every message but Area is dropped
RenderWaitArea ==
  /\ rd.pc = "waitArea"
  /\ toR # <<>>
  /\ toR' = Tail(toR)
  /\ rd' = IF Head(toR).t = "Area"
           THEN RestartRender([rd EXCEPT !.preserved_area = Head(toR).n])
           ELSE rd
  /\ last' = [LastRec("R", "waitArea", 0, <<>>) EXCEPT !.before = <<Head(toR)>>]
  /\ UNCHANGED <<disk, ui, cv, fromR, toC, fromC, env>>

\* the record of what the Renderer has sent for the pages of the document
\* it holds: sent has the pair <<page, number of result_rects>> of the last
\* Page sent for each page (renderer.rs 348-357)
SentPage(sent, page, rects) ==
  {x \in sent : x[1] # page} \cup {<<page, rects>>}

\* one turn of the for loop that renders a page (renderer.rs 296-358), or
\* the end of the loop; after a page, the poll that found no message
\* (renderer.rs 362-367) is part of the next turn
RenderPass ==
  /\ rd.pc = "pass" \/ (rd.pc = "poll" /\ toR = <<>>)
  /\ \E nx \in {NextToRender(rd)} :
     LET rects == ResultRects(nx.r, nx.page)
     IN CASE nx.page = -2 ->
               /\ rd' = [nx.r EXCEPT !.pc = "panicked"]
               /\ fromR' = fromR
               /\ last' = LastRec("R", "panic", nx.r.oob, <<>>)
          [] nx.page = -1 ->
               /\ rd' = AfterPass(nx.r)
               /\ fromR' = fromR
               /\ last' = LastRec("R", "passEnd", 0, <<>>)
          [] OTHER ->
               /\ rd' = [nx.r EXCEPT
                           !.rendered[nx.page + 1] =
                              [successful |-> TRUE, num_search_found |-> rects],
                           !.sent = SentPage(nx.r.sent, nx.page, rects),
                           !.pc = "poll"]
               /\ fromR' = Append(fromR, RenderInfo("Page", nx.page, rects))
               /\ last' = LastRec("R", "page", nx.page, <<>>)
  /\ UNCHANGED <<disk, ui, cv, toR, toC, fromC, env>>

\* renderer.rs 362-367 and 436-441: the non-blocking poll after a page or
\* after a turn of the search sweep finds a message
RenderPoll ==
  /\ rd.pc \in {"poll", "sweepPoll"}
  /\ toR # <<>>
  /\ rd' = handle_notif(rd, Head(toR), IF rd.pc = "poll" THEN "pass" ELSE "sweep")
  /\ toR' = Tail(toR)
  /\ last' = [LastRec("R", "notif", 0, <<>>) EXCEPT !.before = <<Head(toR)>>]
  /\ UNCHANGED <<disk, ui, cv, fromR, toC, fromC, env>>

\* one turn of the search sweep loop up to its poll (renderer.rs 374-434):
\* the Renderer afterwards and the SearchResults it has sent
SweepTurn(r) ==
  LET batch == SweepBatch(r)
      counted == [i \in 1..Len(r.rendered) |->
         IF \E j \in 1..Len(batch) : batch[j] = i - 1
         THEN [successful |-> r.rendered[i].successful
                              /\ HitCount(r.search_term, i - 1) = 0,
               num_search_found |-> HitCount(r.search_term, i - 1)]
         ELSE r.rendered[i]]
      next_start == r.search_start + SEARCH_AT_TIME
      r1 == [r EXCEPT !.rendered = counted]
  IN [sent |-> [j \in 1..Len(batch) |->
                  RenderInfo("SearchResults", batch[j], HitCount(r.search_term, batch[j]))],
      r |-> IF next_start > r.n_pages
            THEN IF r.start_point = 0 THEN AfterSweep(r1)
                 ELSE [r1 EXCEPT !.search_start = 0, !.pc = "sweepPoll"]
            ELSE IF r.start_point \in
                      ((next_start - SEARCH_AT_TIME) + 1)..(next_start - 1)
                 THEN AfterSweep(r1)
                 ELSE [r1 EXCEPT !.search_start = next_start, !.pc = "sweepPoll"]]

\* a turn of the sweep; the poll of the turn before it found no message
RenderSweep ==
  /\ rd.pc = "sweep" \/ (rd.pc = "sweepPoll" /\ toR = <<>>)
  /\ IF rd.search_start > Len(rd.rendered)
     THEN /\ rd' = [rd EXCEPT !.pc = "panicked", !.oob = rd.search_start]
          /\ fromR' = fromR
     ELSE \E turn \in {SweepTurn(rd)} :
            /\ rd' = turn.r
            /\ fromR' = fromR \o turn.sent
  /\ last' = LastRec("R", "sweep", rd.search_start, <<>>)
  /\ UNCHANGED <<disk, ui, cv, toR, toC, fromC, env>>

\* the steps of a page that can fail: load_page, render_single_page_to_ctx
\* (which also searches the page) and write_to
PageSteps == {"load", "raster", "encode"}

\* a turn of the for loop in which a step of the page fails (renderer.rs
\* 309-358): the error is sent and the page is left as it was; after a
\* failed load or encoding the loop continues without the poll
RenderPageFails ==
  /\ rd.pc = "pass" \/ (rd.pc = "poll" /\ toR = <<>>)
  /\ env > 0
  /\ \E nx \in {NextToRender(rd)} : \E step \in PageSteps :
       /\ nx.page >= 0
       /\ rd' = [nx.r EXCEPT !.pc = IF step = "raster" THEN "poll" ELSE "pass"]
       /\ last' = LastRec("R", step, nx.page, <<>>)
  /\ fromR' = Append(fromR, RenderInfo("Err", 0, 0))
  /\ env' = env - 1
  /\ UNCHANGED <<disk, ui, cv, toR, toC, fromC>>

\* a turn of the sweep in which loading or counting the j-th page of the
\* batch fails (renderer.rs 393-398): the pages before it are counted and
\* sent, then the unwrap panics
RenderCountFails ==
  /\ rd.pc = "sweep" \/ (rd.pc = "sweepPoll" /\ toR = <<>>)
  /\ rd.search_start <= Len(rd.rendered)
  /\ env > 0
  /\ \E batch \in {SweepBatch(rd)} : \E j \in 1..Len(batch) :
       /\ rd' = [rd EXCEPT
             !.rendered = [i \in 1..Len(rd.rendered) |->
                IF \E k \in 1..(j - 1) : batch[k] = i - 1
                THEN [successful |-> rd.rendered[i].successful
                                     /\ HitCount(rd.search_term, i - 1) = 0,
                      num_search_found |-> HitCount(rd.search_term, i - 1)]
                ELSE rd.rendered[i]],
             !.pc = "panicked"]
       /\ fromR' = fromR \o [k \in 1..(j - 1) |->
              RenderInfo("SearchResults", batch[k], HitCount(rd.search_term, batch[k]))]
       /\ last' = LastRec("R", "count", batch[j], <<>>)
  /\ env' = env - 1
  /\ UNCHANGED <<disk, ui, cv, toR, toC, fromC>>

\* renderer.rs 456-460: the blocking recv when there is nothing to do
RenderIdle ==
  /\ rd.pc = "idle"
  /\ toR # <<>>
  /\ rd' = handle_notif(rd, Head(toR), "idle")
  /\ toR' = Tail(toR)
  /\ last' = [LastRec("R", "notif", 0, <<>>) EXCEPT !.before = <<Head(toR)>>]
  /\ UNCHANGED <<disk, ui, cv, fromR, toC, fromC, env>>

RendererInit(limit) ==
  [pc |-> "open", stored_doc |-> 0, n_pages |-> 0, rendered |-> <<>>,
   start_point |-> 0, search_term |-> <<>>, need_rerender |-> <<>>,
   preserved_area |-> 0, invert |-> FALSE, rotate |-> 0, fit_or_fill |-> Fit,
   prerender |-> limit, iter |-> 0, take_n |-> 0, search_start |-> 0, oob |-> -1,
   sent |-> {}]

----------------------------------------------------------------------------
(* tui.rs: the Tui struct *)

\* ImageData.cell_w of a rendered page, in terminal cells (renderer.rs 349):
\* every page of the documents has the same width
ImgW == 4
\* terminal widths, in cells, the window is resized between
Widths == {8, 12}
\* the characters the user types into the search prompt
TermChars == {"a", "b"}
RenderedInfoDefault == [img |-> "None", num_results |-> NoCount]

\* BottomMessage; None stands for prev_msg = None
Msg(k, n, s) == [k |-> k, n |-> n, s |-> s]
MsgHelp == Msg("Help", 0, <<>>)
MsgNone == Msg("None", 0, <<>>)


\* Tui::set_msg(MessageSetting::Some(msg)), when the help page is not at stake
SetMsgSome(u, msg) == [u EXCEPT !.prev_msg = u.bottom_msg, !.bottom_msg = msg]
\* Tui::set_msg(MessageSetting::Reset)
SetMsgReset(u) == [u EXCEPT !.prev_msg = MsgNone, !.bottom_msg = MsgHelp]
\* Tui::set_msg(MessageSetting::Pop)
\* a pop that forgets the saved message when it closes the help page
SetMsgPopForgets(u) ==
  IF u.showing_help_msg
  THEN [u EXCEPT !.last_render.rect = 0, !.showing_help_msg = FALSE,
                 !.prev_msg = MsgNone]
  ELSE [u EXCEPT !.bottom_msg = IF u.prev_msg = MsgNone THEN MsgHelp ELSE u.prev_msg,
                 !.prev_msg = MsgNone]

SetMsgPop(u) ==
  IF u.showing_help_msg
  THEN [u EXCEPT !.last_render.rect = 0, !.showing_help_msg = FALSE]
  ELSE [u EXCEPT !.bottom_msg = IF u.prev_msg = MsgNone THEN MsgHelp ELSE u.prev_msg,
                 !.prev_msg = MsgNone]

\* Tui::set_page
\* a set_page that leaves the page where it is
set_page_stuck(u, page) == u

set_page(u, page) ==
  IF page # u.page THEN [u EXCEPT !.last_render.rect = 0, !.page = page] ELSE u

\* a change_page that does not clamp at the last page
change_page_noclamp(u, change, amt) ==
  LET diff == IF amt = "Single" THEN 1 ELSE u.last_render.pages_shown
      ch == IF u.r_to_l THEN (IF change = "Next" THEN "Prev" ELSE "Next") ELSE change
      u1 == IF ch = "Next" THEN set_page(u, u.page + diff)
            ELSE set_page(u, SatSub(u.page, diff))
  IN [u |-> u1,
      act |-> IF u1.page = u.page THEN ActNone ELSE Act("JumpingToPage", u1.page, <<>>)]

\* Tui::change_page
change_page(u, change, amt) ==
  LET diff == IF amt = "Single" THEN 1 ELSE u.last_render.pages_shown
      ch == IF u.r_to_l THEN (IF change = "Next" THEN "Prev" ELSE "Next") ELSE change
      u1 == IF ch = "Next"
            THEN set_page(u, Min(u.page + diff, SatSub(Len(u.rendered), 1)))
            ELSE set_page(u, SatSub(u.page, diff))
  IN [u |-> u1,
      act |-> IF u1.page = u.page THEN ActNone ELSE Act("JumpingToPage", u1.page, <<>>)]

\* Tui::set_n_pages
set_n_pages(u, n_pages) ==
  [u EXCEPT !.rendered = fill_default(u.rendered, n_pages, RenderedInfoDefault),
            !.page = Min(u.page, n_pages - 1)]

\* Tui::got_num_results_on_page
got_num_results_on_page(u, page_num, num_results) ==
  IF page_num >= Len(u.rendered) THEN [u EXCEPT !.pc = "panicked"]
  ELSE [u EXCEPT !.rendered[page_num + 1].num_results = num_results]

\* Tui::page_ready; the image arrives as MaybeTransferred::NotYet
page_ready(u, page_num, num_results) ==
  LET lr == u.last_render
      near == page_num >= u.page /\ page_num <= u.page + lr.pages_shown
      num_fit == lr.unused_width \div ImgW
      fits == ImgW <= lr.unused_width /\ page_num >= u.page
              /\ u.page + num_fit >= page_num
      u1 == IF near \/ fits THEN [u EXCEPT !.last_render.rect = 0] ELSE u
  IN IF page_num >= Len(u.rendered) THEN [u1 EXCEPT !.pc = "panicked"]
     ELSE [u1 EXCEPT !.rendered[page_num + 1] =
                        [img |-> "NotYet", num_results |-> num_results]]

\* Tui::page_failed_display
page_failed_display(u, page_num) ==
  IF page_num >= Len(u.rendered) THEN [u EXCEPT !.pc = "panicked"]
  ELSE [u EXCEPT !.rendered[page_num + 1].img = "None"]

\* an n that takes the last page with results instead of the next one
NextResultPageFarthest(u) ==
  LET cands == {p \in (u.page + 1)..(Len(u.rendered) - 1) :
                   u.rendered[p + 1].num_results > 0}
  IN IF cands = {} THEN -1 ELSE CHOOSE p \in cands : \A q \in cands : p >= q

\* the smallest index above the current page with num_results > 0, or -1
\* (tui.rs 596-603)
NextResultPage(u) ==
  LET cands == {p \in (u.page + 1)..(Len(u.rendered) - 1) :
                   u.rendered[p + 1].num_results > 0}
  IN IF cands = {} THEN -1 ELSE CHOOSE p \in cands : \A q \in cands : p <= q

\* the largest index below the current page with num_results > 0, or -1
\* (tui.rs 608-616)
PrevResultPage(u) ==
  LET cands == {p \in 0..(u.page - 1) : u.rendered[p + 1].num_results > 0}
  IN IF cands = {} THEN -1 ELSE CHOOSE p \in cands : \A q \in cands : p >= q

\* jump_to_page, the helper inside handle_event
jump_to_page(u, new_page) ==
  IF new_page = -1 THEN [u |-> u, act |-> ActNone]
  ELSE [u |-> [u EXCEPT !.page = new_page, !.last_render.rect = 0],
        act |-> Act("JumpingToPage", new_page, <<>>)]

\* char::to_digit(10) of a typed character
IsDigit(c) == c \in {"0", "1", "2", "3", "4", "5", "6", "7", "8", "9"}
DigitOf(c) ==
  CASE c = "0" -> 0 [] c = "1" -> 1 [] c = "2" -> 2 [] c = "3" -> 3 [] c = "4" -> 4
    [] c = "5" -> 5 [] c = "6" -> 6 [] c = "7" -> 7 [] c = "8" -> 8 [] c = "9" -> 9

\* Tui::handle_event: the Tui afterwards and the InputAction returned; the
\* action Panic stands for an arithmetic overflow or a slice out of range
\* the terminal as main has set it up before the loop (main.rs 226-231 and
\* 311): alternate screen entered, cursor hidden, raw mode on
TermSetUp == [alt |-> TRUE, cursor_hidden |-> TRUE, raw |-> TRUE]

\* tui.rs 623-630: LeaveAlternateScreen, cursor::Show, disable_raw_mode
Suspended(term) == [term EXCEPT !.alt = FALSE, !.cursor_hidden = FALSE, !.raw = FALSE]

\* a resume that does not hide the cursor again
ResumedCursorShown(term) == [term EXCEPT !.raw = TRUE, !.alt = TRUE]

\* tui.rs 637-643: enable_raw_mode, EnterAlternateScreen, cursor::Hide
Resumed(term) == [term EXCEPT !.raw = TRUE, !.alt = TRUE, !.cursor_hidden = TRUE]

\* tui.rs 648-656, z on a Kitty terminal: the zoom is switched on (fill) or
\* off (fit) and the next frame is drawn in full
zoom_key(u) ==
  [u |-> [u EXCEPT !.zoom = ~u.zoom, !.last_render.rect = 0],
   act |-> Act("SwitchRenderZoom", IF u.zoom THEN Fit ELSE Fill, <<>>)]

\* the r key: the action that main.rs 404 turns into RenderNotif::Rotate
rotate_key(u) == [u |-> u, act |-> Act("Rotate", 0, <<>>)]

\* a prompt that forwards every number
go_to_page_unchecked(u) ==
  LET zero_page == SatSub(u.bottom_msg.n, 1)
  IN [u |-> set_page([u EXCEPT !.bottom_msg = MsgHelp], zero_page),
      act |-> Act("JumpingToPage", zero_page, <<>>)]

\* tui.rs 699-726: Enter in the go-to-page prompt; the prompt is swapped
\* for the default message before the number is looked at
go_to_page_entered(u) ==
  LET zero_page == SatSub(u.bottom_msg.n, 1)
      u0 == [u EXCEPT !.bottom_msg = MsgHelp]
  IN IF zero_page < Len(u.rendered)
     THEN [u |-> set_page(u0, zero_page), act |-> Act("JumpingToPage", zero_page, <<>>)]
     ELSE [u |-> SetMsgSome(u0, Msg("Error", u.bottom_msg.n, <<"jump">>)),
           act |-> ActRedraw]

handle_event(u, ev) ==
  LET nav(change, amt) == change_page(u, change, amt)
      only(u1, a) == [u |-> u1, act |-> a]
      bm == u.bottom_msg
  IN CASE ev.k = "Char" ->
            IF bm.k = "Input_Search"
            THEN only([u EXCEPT !.bottom_msg.s = Append(bm.s, ev.c)], ActRedraw)
            ELSE IF bm.k = "Input_GoToPage"
            THEN IF IsDigit(ev.c)
                 THEN only([u EXCEPT !.bottom_msg.n = (bm.n * 10) + DigitOf(ev.c)], ActRedraw)
                 ELSE only(u, ActNone)
            ELSE CASE ev.c = "l" -> nav("Next", "Single")
                   [] ev.c = "j" -> nav("Next", "WholeScreen")
                   [] ev.c = "h" -> nav("Prev", "Single")
                   [] ev.c = "k" -> nav("Prev", "WholeScreen")
                   [] ev.c = "q" -> only(u, Act("QuitApp", 0, <<>>))
                   [] ev.c = "g" ->
                        only(SetMsgSome(u, Msg("Input_GoToPage", 0, <<>>)), ActRedraw)
                   [] ev.c = "/" ->
                        only(SetMsgSome(u, Msg("Input_Search", 0, <<>>)), ActRedraw)
                   [] ev.c = "i" -> only(u, Act("Invert", 0, <<>>))
                   [] ev.c = "?" -> only([u EXCEPT !.showing_help_msg = TRUE], ActRedraw)
                   [] ev.c = "f" -> only(u, Act("Fullscreen", 0, <<>>))
                   [] ev.c = "z" -> zoom_key(u)
                   [] ev.c = "r" -> rotate_key(u)
                   [] ev.c = "n" ->
                        IF Len(u.rendered) = 0 THEN only(u, Act("Panic", 0, <<>>))
                        ELSE IF u.page < Len(u.rendered) - 1
                        THEN jump_to_page(u, NextResultPage(u))
                        ELSE only(u, ActNone)
                   [] ev.c = "N" ->
                        IF u.page > 0 THEN jump_to_page(u, PrevResultPage(u))
                        ELSE only(u, ActNone)
                   [] OTHER -> only(u, ActNone)
       [] ev.k = "Backspace" ->
            IF bm.k = "Input_Search"
            THEN only([u EXCEPT !.bottom_msg.s = SubSeq(bm.s, 1, SatSub(Len(bm.s), 1))],
                      ActRedraw)
            ELSE only(u, ActNone)
       [] ev.k = "Right" -> nav("Next", "Single")
       [] ev.k = "Down" -> nav("Next", "WholeScreen")
       [] ev.k = "Left" -> nav("Prev", "Single")
       [] ev.k = "Up" -> nav("Prev", "WholeScreen")
       [] ev.k = "Esc" ->
            IF ~u.showing_help_msg /\ bm.k = "Help"
            THEN only(u, Act("QuitApp", 0, <<>>))
            ELSE only(SetMsgPop(u), ActRedraw)
       [] ev.k = "Enter" ->
            IF bm.k = "Input_GoToPage" THEN go_to_page_entered(u)
            ELSE IF bm.k = "Input_Search"
            THEN LET u0 == [u EXCEPT !.bottom_msg = MsgHelp]
                     u1 == IF bm.s # <<>>
                           THEN SetMsgSome(u0, Msg("SearchResults", 0, bm.s))
                           ELSE SetMsgReset(u0)
                 IN only([u1 EXCEPT !.rendered =
                            [i \in 1..Len(u.rendered) |->
                               [u.rendered[i] EXCEPT !.num_results = NoCount]]],
                         Act("Search", 0, bm.s))
            ELSE only(u, ActNone)
       [] ev.k = "ScrollRight" -> nav("Next", "Single")
       [] ev.k = "ScrollDown" -> nav("Next", "WholeScreen")
       [] ev.k = "ScrollLeft" -> nav("Prev", "Single")
       [] ev.k = "ScrollUp" -> nav("Prev", "WholeScreen")
       [] ev.k = "Resize" -> only(u, ActRedraw)
       [] ev.k = "CtrlZ" ->
            IF bm.k = "Input_Search"
            THEN only([u EXCEPT !.bottom_msg.s = Append(bm.s, "z")], ActRedraw)
            ELSE IF bm.k = "Input_GoToPage" THEN only(u, ActNone)
            ELSE only([u EXCEPT !.term = Resumed(Suspended(u.term)),
                                !.last_render.rect = 0],
                      ActRedraw)
       [] OTHER -> only(u, ActNone)

\* the terminal events of the model, by kind
NavKeys == {Event("Char", c, 0) : c \in {"l", "h", "j", "k"}}
ArrowKeys == {Event(k, "", 0) : k \in {"Right", "Left", "Down", "Up"}}
ScrollEvents == {Event(k, "", 0) : k \in {"ScrollRight", "ScrollLeft", "ScrollDown", "ScrollUp"}}
ResultKeys == {Event("Char", c, 0) : c \in {"n", "N"}}
ResizeEvents == {Event("Resize", "", w) : w \in Widths}
\* z with the Control modifier
CtrlZ == Event("CtrlZ", "", 0)
PromptKeys ==
  {Event("Char", c, 0) : c \in TermChars \cup {"0", "1", "2", "3", "4", "5", "6", "7", "8", "9"}}
    \cup {Event("Enter", "", 0)}

\* 0 for a key typed into an open prompt, 1 for an act of the user
EventCost(u, ev) ==
  IF u.bottom_msg.k \in {"Input_Search", "Input_GoToPage"} THEN 0 ELSE 1

\* Tui::main_layout: the width of the page area and whether the bars are
\* hidden; the bars and margins take 2 cells on each side
PageAreaW(size, fullscreened) == IF fullscreened THEN size ELSE SatSub(size, 4)
main_layout(size, fullscreened) ==
  [page_area |-> PageAreaW(size, fullscreened), fullscreened |-> fullscreened]

\* tui.rs 276-300: how many pages from the current one are drawn: those that
\* have an image, at most max_wide, as long as the widths fit
RECURSIVE PagesThatFit(_, _, _)
PagesThatFit(u, idx, test_area_w) ==
  IF /\ u.page + idx < Len(u.rendered)
     /\ u.rendered[u.page + idx + 1].img # "None"
     /\ (u.max_wide = 0 \/ idx < u.max_wide)
     /\ test_area_w >= ImgW
  THEN 1 + PagesThatFit(u, idx + 1, test_area_w - ImgW)
  ELSE 0

\* a render that lays the pages out side by side while zoomed as well
ZoomedNever(u) == FALSE

\* tui.rs 185-198: the view is zoomed and the current page has an image
Zoomed(u) ==
  u.zoom /\ u.page < Len(u.rendered) /\ u.rendered[u.page + 1].img # "None"

\* Tui::render: the Tui afterwards and the KittyDisplay returned.  An entry
\* of DisplayImages carries the page number it is labelled with and the
\* slot whose image it borrows.  While zoomed the current page is looked up
\* by index and, when it has an image, is drawn alone.
render(u, full_layout) ==
  LET img_area_w == full_layout.page_area
      shown == PagesThatFit(u, 0, img_area_w)
      entries == [idx \in 1..shown |->
                    [page_num |-> (idx - 1) + u.page,
                     slot |-> IF u.r_to_l THEN u.page + (shown - idx)
                              ELSE u.page + (idx - 1)]]
  IN IF u.showing_help_msg THEN [u |-> u, kind |-> "ClearImages", imgs |-> <<>>]
     ELSE IF ~full_layout.fullscreened /\ u.bottom_msg.k = "SearchResults"
             /\ Len(u.rendered) = 0
     THEN [u |-> [u EXCEPT !.pc = "panicked"], kind |-> "NoChange", imgs |-> <<>>]
     ELSE IF u.size = u.last_render.rect
     THEN [u |-> u, kind |-> "NoChange", imgs |-> <<>>]
     ELSE IF u.zoom /\ u.page >= Len(u.rendered)
     THEN [u |-> [u EXCEPT !.pc = "panicked"], kind |-> "NoChange", imgs |-> <<>>]
     ELSE IF Zoomed(u)
     THEN [u |-> [u EXCEPT !.last_render =
                     [rect |-> u.size, pages_shown |-> 1, unused_width |-> 0]],
           kind |-> "DisplayImages",
           imgs |-> <<[page_num |-> u.page, slot |-> u.page]>>]
     ELSE IF u.page > Len(u.rendered)
     THEN [u |-> [u EXCEPT !.pc = "panicked"], kind |-> "NoChange", imgs |-> <<>>]
     ELSE IF shown = 0 THEN [u |-> u, kind |-> "ClearImages", imgs |-> <<>>]
     ELSE [u |-> [u EXCEPT !.last_render =
                     [rect |-> u.size, pages_shown |-> shown,
                      unused_width |-> img_area_w - (shown * ImgW)]],
           kind |-> "DisplayImages", imgs |-> entries]

----------------------------------------------------------------------------
(* kitty.rs: display_kitty_images.  The answers of the terminal are an     *)
(* input: tout[1] answers the clear request, tout[1 + i] the request for   *)
(* the i-th entry of the display list.                                     *)

Outcomes == {"ok", "NoEntity", "Other"}
\* the most pages a frame shows
MaxShown == 12 \div ImgW


\* a driver that sends the pixels again for an image the terminal already has
KittyOpAlwaysTransmit(state) == "TransmitAndDisplay"

\* kitty.rs 148-195: the request issued for an entry
KittyOp(state) == IF state = "Transferred" THEN "Display" ELSE "TransmitAndDisplay"

\* a driver that leaves the entry NotYet after a successful transmission
AfterKittyOpForgetful(state, res) ==
  IF state = "Transferred" THEN state ELSE IF res = "ok" THEN state ELSE "Fake"

\* the MaybeTransferred of the entry after the request: a transmission swaps
\* an empty image in and, when it succeeds, stores the id instead
AfterKittyOp(state, res) ==
  IF state = "Transferred" THEN state
  ELSE IF res = "ok" THEN "Transferred" ELSE "Fake"

\* kitty.rs 199-202 with an error list that keeps the last error
CollectErrKeepLast(err, page_num, res) ==
  IF res = "ok" THEN err
  ELSE [class |-> res, pages |-> Append(err.pages, page_num),
        desc |-> "Couldn't transfer image to the terminal"]

\* kitty.rs 199-202: the first error is kept, every failed page is listed
CollectErr(err, page_num, res) ==
  IF res = "ok" THEN err
  ELSE [class |-> IF err.class = "none" THEN res ELSE err.class,
        pages |-> Append(err.pages, page_num),
        desc |-> "Couldn't transfer image to the terminal"]

\* kitty.rs 130-203: the loop over the display list
RECURSIVE DisplayEach(_, _, _, _, _, _)
DisplayEach(u, imgs, i, tout, err, ops) ==
  IF i > Len(imgs) THEN [u |-> u, err |-> err, ops |-> ops]
  ELSE LET e == imgs[i]
           state == u.rendered[e.slot + 1].img
           res == tout[1 + i]
       IN DisplayEach([u EXCEPT !.rendered[e.slot + 1].img = AfterKittyOp(state, res)],
                      imgs, i + 1, tout,
                      CollectErr(err, e.page_num, res),
                      Append(ops, [page_num |-> e.page_num, slot |-> e.slot,
                                   op |-> KittyOp(state), res |-> res]))

\* a driver that goes on to the entries after the clear has failed
display_after_failed_clear(u, d, tout) ==
  IF d.kind = "NoChange" THEN [u |-> u, err |-> NoErr, ops |-> <<>>, used |-> 0]
  ELSE IF d.kind = "ClearImages" THEN [u |-> u, err |-> NoErr, ops |-> <<>>, used |-> 1]
  ELSE LET r == DisplayEach(u, d.imgs, 1, tout, NoErr, <<>>)
       IN [u |-> r.u, err |-> r.err, ops |-> r.ops, used |-> 1 + Len(d.imgs)]

\* display_kitty_images: the Tui afterwards (its images are borrowed
\* mutably), the error returned, and the requests made
display_kitty_images(u, d, tout) ==
  IF d.kind = "NoChange" THEN [u |-> u, err |-> NoErr, ops |-> <<>>, used |-> 0]
  ELSE IF tout[1] # "ok"
  THEN [u |-> u,
        err |-> [class |-> tout[1], pages |-> <<>>, desc |-> "Couldn't clear previous images"],
        ops |-> <<>>, used |-> 1]
  ELSE IF d.kind = "ClearImages" THEN [u |-> u, err |-> NoErr, ops |-> <<>>, used |-> 1]
  ELSE LET r == DisplayEach(u, d.imgs, 1, tout, NoErr, <<>>)
       IN [u |-> r.u, err |-> r.err, ops |-> r.ops, used |-> 1 + Len(d.imgs)]

----------------------------------------------------------------------------
(* main.rs: enter_redraw_loop *)

RECURSIVE FailAll(_, _, _)
\* main.rs 473-477: invalidate each failed page
FailAll(u, pages, i) ==
  IF i > Len(pages) \/ u.pc # "run" THEN u
  ELSE FailAll(page_failed_display(u, pages[i]), pages, i + 1)

\* main.rs 458-471 with every error class shown
ShowKittyErrAll(u, err) ==
  IF err.class = "none" THEN u
  ELSE SetMsgSome(u, Msg("Error", 0, <<err.desc, err.class>>))

\* main.rs 458-471: NoEntity is not shown, any other error is
ShowKittyErr(u, err) ==
  IF err.class \in {"none", "NoEntity"} THEN u
  ELSE SetMsgSome(u, Msg("Error", 0, <<err.desc, err.class>>))

\* main.rs 443-481: the rest of a turn of the loop after the select!
LoopTail(u, needs_redraw, tout) ==
  LET new_area == main_layout(u.size, u.fullscreen)
      changed == new_area # u.main_area
      u1 == [u EXCEPT !.main_area = new_area]
      area_msg == IF changed THEN <<RenderNotif("Area", new_area.page_area, <<>>)>> ELSE <<>>
      undrawn(u2) == [u |-> u2, sendR |-> area_msg, frame |-> "none", ops |-> <<>>,
                      used |-> 0, err |-> NoErr, list |-> <<>>, clear |-> "none",
                      view |-> NoView]
      shown(d, k) ==
        [u |-> FailAll(ShowKittyErr(k.u, k.err), k.err.pages, 1),
         sendR |-> area_msg \o [i \in 1..Len(k.err.pages) |->
                                   RenderNotif("PageNeedsReRender", k.err.pages[i], <<>>)],
         frame |-> d.kind, ops |-> k.ops, used |-> k.used, err |-> k.err,
         clear |-> IF k.used = 0 THEN "none" ELSE tout[1],
         view |-> [page |-> u1.page,
                   ready |-> {i \in 0..(Len(u1.rendered) - 1) :
                                u1.rendered[i + 1].img # "None"},
                   w |-> new_area.page_area, zoom |-> u1.zoom,
                   help |-> u1.showing_help_msg],
         list |-> [i \in 1..Len(d.imgs) |->
                     [page_num |-> d.imgs[i].page_num, slot |-> d.imgs[i].slot,
                      was |-> d.u.rendered[d.imgs[i].slot + 1].img,
                      now |-> k.u.rendered[d.imgs[i].slot + 1].img]]]
      drawn(d) ==
        IF d.u.pc # "run" THEN undrawn(d.u)
        ELSE Once(display_kitty_images(d.u, [kind |-> d.kind, imgs |-> d.imgs], tout),
                  LAMBDA k : shown(d, k))
  IN IF ~(needs_redraw \/ changed) THEN undrawn(u1)
     ELSE Once(render(u1, new_area), drawn)

\* the number of requests the frame of this turn makes when none fails
RequestsOf(u, needs_redraw) ==
  LET new_area == main_layout(u.size, u.fullscreen)
      d == render([u EXCEPT !.main_area = new_area], new_area)
  IN IF u.pc # "run" \/ d.u.pc # "run" THEN 0
     ELSE IF ~(needs_redraw \/ new_area # u.main_area) \/ d.kind = "NoChange" THEN 0
     ELSE 1 + Len(d.imgs)

AllOk == [j \in 1..(1 + MaxShown) |-> "ok"]
\* 1 when one of the requests of a frame failed
Failed(tout) == IF tout = AllOk THEN 0 ELSE 1
\* the answers the terminal may give to n requests: nothing is asked after a
\* failed clear request
AnswersTo(n, may_fail) ==
  IF ~may_fail THEN {AllOk}
  ELSE {[j \in 1..(1 + MaxShown) |-> IF j <= n THEN f[j] ELSE "ok"] : f \in [1..n -> Outcomes]}

\* main.rs 389-411: a terminal event
UiEvent(ev, may_fail) ==
  /\ ui.pc = "run"
  /\ \E h \in {handle_event(IF ev.k = "Resize" THEN [ui EXCEPT !.size = ev.w] ELSE ui,
                               ev)} :
     LET a == h.act
         u1 == IF a.t = "Fullscreen" THEN [h.u EXCEPT !.fullscreen = ~h.u.fullscreen]
               ELSE h.u
         sendR == CASE a.t = "JumpingToPage" -> <<RenderNotif("JumpToPage", a.n, <<>>)>>
                    [] a.t = "Search" -> <<RenderNotif("Search", 0, a.s)>>
                    [] a.t = "Invert" -> <<RenderNotif("Invert", 0, <<>>)>>
                    [] a.t = "Rotate" -> <<RenderNotif("Rotate", 0, <<>>)>>
                    [] a.t = "SwitchRenderZoom" -> <<RenderNotif("SwitchFitOrFill", a.n, <<>>)>>
                    [] OTHER -> <<>>
         sendC == IF a.t = "JumpingToPage" THEN <<ConverterMsg("GoToPage", a.n, 0)>>
                  ELSE <<>>
     IN CASE a.t = "Panic" ->
               /\ ui' = [ui EXCEPT !.pc = "panicked"]
               /\ UNCHANGED <<toR, toC>>
               /\ env' = env - EventCost(ui, ev)
               /\ last' = [LastRec("U", "panic", 0, <<>>) EXCEPT !.ev = ev]
          [] a.t = "QuitApp" ->
               /\ ui' = [h.u EXCEPT !.pc = "quit"]
               /\ UNCHANGED <<toR, toC>>
               /\ env' = env - EventCost(ui, ev)
               /\ last' = [LastRec("U", "quit", 0, <<>>) EXCEPT !.ev = ev]
          [] OTHER ->
               \E tout \in AnswersTo(RequestsOf(u1, a.t # "None"), may_fail) :
                 \E t \in {LoopTail(u1, a.t # "None", tout)} :
                    /\ ui' = t.u
                    /\ toR' = toR \o sendR \o t.sendR
                    /\ toC' = toC \o sendC
                    /\ env' = env - (EventCost(ui, ev) + Failed(tout))
                    /\ last' = LastUi("event", 0, t, sendR \o t.sendR, sendC, ev, a, {})
  /\ UNCHANGED <<disk, rd, cv, fromR, fromC>>

\* Tui::show_error
show_error(u, kind) == SetMsgSome(u, Msg("Error", 0, <<kind>>))

\* main.rs 412-429: a message of the Renderer (or an error of the watcher)
UiRenderInfo(may_fail) ==
  /\ ui.pc = "run"
  /\ fromR # <<>>
  /\ \E m \in {Head(fromR)} :
     \E u1 \in {CASE m.t = "NumPages" -> set_n_pages(ui, m.a)
                  [] m.t = "Page" -> got_num_results_on_page(ui, m.a, m.b)
                  [] m.t = "Reloaded" -> SetMsgSome(ui, Msg("Reloaded", 0, <<>>))
                  [] m.t = "SearchResults" -> got_num_results_on_page(ui, m.a, m.b)
                  [] m.t = "Err" -> show_error(ui, "Doc")
                  [] m.t = "ErrNotify" -> show_error(ui, "Converting")} :
       LET sendC == CASE m.t = "NumPages" -> <<ConverterMsg("NumPages", m.a, 0)>>
                      [] m.t = "Page" -> <<ConverterMsg("AddImg", m.a, m.b)>>
                      [] OTHER -> <<>>
       IN IF u1.pc # "run"
          THEN /\ ui' = u1
               /\ UNCHANGED <<toR, toC, env>>
               /\ last' = [LastRec("U", "panic", 0, <<>>) EXCEPT !.before = <<m>>]
          ELSE \E tout \in AnswersTo(RequestsOf(u1, TRUE), may_fail) :
               \E t \in {LoopTail(u1, TRUE, tout)} :
                  /\ ui' = t.u
                  /\ toR' = toR \o t.sendR
                  /\ toC' = toC \o sendC
                  /\ env' = env - Failed(tout)
                  /\ last' = [LastUi(m.t, m.a, t, t.sendR, sendC, NoEvent, ActNone,
                                       IF m.t = "NumPages" THEN last.held ELSE {})
                                EXCEPT !.before = <<m>>,
                                       !.prev = IF m.t = "NumPages" THEN ui.rendered
                                                ELSE <<>>]
  /\ fromR' = Tail(fromR)
  /\ UNCHANGED <<disk, rd, cv, fromC>>

\* main.rs 430-440: a message of the Converter
UiConverted(may_fail) ==
  /\ ui.pc = "run"
  /\ fromC # <<>>
  /\ \E m \in {Head(fromC)} :
     \E u1 \in {IF m.t = "ConvertedPage" THEN page_ready(ui, m.a, m.b)
                ELSE show_error(ui, "Converting")} :
        IF u1.pc # "run"
        THEN /\ ui' = u1
             /\ UNCHANGED <<toR, env>>
             /\ last' = [LastRec("U", "panic", 0, <<>>) EXCEPT !.before = <<m>>]
        ELSE \E tout \in AnswersTo(RequestsOf(u1, TRUE), may_fail) :
             \E t \in {LoopTail(u1, TRUE, tout)} :
                  /\ ui' = t.u
                  /\ toR' = toR \o t.sendR
                  /\ env' = env - Failed(tout)
                  /\ last' = [LastUi(m.t, m.a, t, t.sendR, <<>>, NoEvent, ActNone,
                                       IF m.t = "ConvertedPage" THEN {m.a} ELSE {})
                                EXCEPT !.before = <<m>>]
  /\ fromC' = Tail(fromC)
  /\ UNCHANGED <<disk, rd, cv, fromR, toC>>

\* main.rs 332-339: the first Area is sent before the loop is entered
UiStart ==
  /\ ui.pc = "start"
  /\ ui' = [ui EXCEPT !.pc = "run"]
  /\ toR' = Append(toR, RenderNotif("Area", ui.main_area.page_area, <<>>))
  /\ last' = LastRec("U", "start", 0, <<>>)
  /\ UNCHANGED <<disk, rd, cv, fromR, toC, fromC, env>>

\* main.rs 305-330: setting up the terminal fails (Terminal::new,
\* enable_raw_mode, the Delete of the old images); inner_main returns and
\* its ends of the channels are dropped before the first Area is sent
UiStartFails ==
  /\ ui.pc = "start"
  /\ env > 0
  /\ ui' = [ui EXCEPT !.pc = "failed"]
  /\ env' = env - 1
  /\ last' = LastRec("U", "startFailed", 0, <<>>)
  /\ UNCHANGED <<disk, rd, cv, toR, fromR, toC, fromC>>

\* the UI has returned or panicked: its ends of the channels are dropped
Gone == {"quit", "panicked", "failed"}

\* the Renderer meets the dropped channel.  A blocking or polling receive
\* reports the disconnect once no message is left: receiver.recv().unwrap()
\* while waiting for the first Area (renderer.rs 181-189), return Ok(()) in
\* the wait for a Reload (127-135), in the polls (362-367, 436-441) and in
\* the idle recv (456-458).  Elsewhere the next send fails and `?` returns
\* the SendError, or nothing is left to send and the idle recv is reached.
RenderHangup ==
  /\ ui.pc \in Gone
  /\ \/ rd.pc \in {"waitArea", "waitReload", "idle", "poll", "sweepPoll"} /\ toR = <<>>
     \/ rd.pc \in {"open", "pass", "sweep"}
  /\ rd' = [rd EXCEPT !.pc = IF rd.pc = "waitArea" THEN "panicked" ELSE "returned"]
  /\ last' = LastRec("R", "hangup", 0, <<>>)
  /\ UNCHANGED <<disk, ui, cv, toR, fromR, toC, fromC, env>>

\* the Converter meets the dropped channel: try_recv reports Disconnected
\* in a burst, the stream ends while it awaits a message, or its send
\* fails (converter.rs 187-221)
CvHangup ==
  /\ ui.pc \in Gone
  /\ cv.pc = "run"
  /\ toC = <<>>
  /\ cv' = [cv EXCEPT !.pc = "returned"]
  /\ last' = LastRec("C", "hangup", 0, <<>>)
  /\ UNCHANGED <<disk, rd, ui, toR, fromR, toC, fromC, env>>

\* Tui::new and the locals of main before the loop
TuiNew(size, fullscreen, r_to_l, max_wide) ==
  [pc |-> "start", page |-> 0,
   last_render |-> [rect |-> 0, pages_shown |-> 0, unused_width |-> 0],
   bottom_msg |-> MsgHelp, prev_msg |-> MsgNone, rendered |-> <<>>,
   r_to_l |-> r_to_l, max_wide |-> max_wide, showing_help_msg |-> FALSE,
   size |-> size, fullscreen |-> fullscreen,
   main_area |-> main_layout(size, fullscreen), term |-> TermSetUp,
   zoom |-> FALSE]

----------------------------------------------------------------------------
(* converter.rs: run_conversion_loop *)

\* Option<PageInfo>::None in the holding vector
NoInfo == -1

\* handle_notif of the Converter
cv_handle_notif(c, msg) ==
  CASE msg.t = "AddImg" ->
         IF msg.a >= Len(c.images) THEN [c EXCEPT !.pc = "panicked"]
         ELSE [c EXCEPT !.images[msg.a + 1] = msg.b]
    [] msg.t = "NumPages" ->
         [c EXCEPT !.images = fill_default(c.images, msg.a, NoInfo),
                   !.page = Min(c.page, msg.a - 1)]
    [] msg.t = "GoToPage" -> [c EXCEPT !.page = msg.a]

\* a Converter that takes the stored PageInfo with the lowest index of the
\* window
next_page_lowest(c) ==
  LET prerender == CONVERTER_PRERENDER
      idx_start == SatSub(c.page, prerender \div 2)
      idx_end == Min(idx_start + prerender, Len(c.images))
      stored == {q \in idx_start..(idx_end - 1) : c.images[q + 1] # NoInfo}
      low == CHOOSE q \in stored : \A r \in stored : q <= r
  IN IF stored = {}
     THEN [found |-> FALSE, oob |-> FALSE, i_idx |-> 0, p_idx |-> 0]
     ELSE [found |-> TRUE, oob |-> FALSE, i_idx |-> 0, p_idx |-> low]

\* next_page: the position in the prerender order and the page of the first
\* stored PageInfo, found = FALSE when there is none; oob when the order
\* leaves the holding vector before one is found
next_page(c) ==
  LET prerender == CONVERTER_PRERENDER
      idx_start == SatSub(c.page, prerender \div 2)
      idx_end == Min(idx_start + prerender, Len(c.images))
      at(i) == InterleavedNext(c.page, idx_start, idx_end, i)
      none == [found |-> FALSE, oob |-> FALSE, i_idx |-> 0, p_idx |-> 0]
      taken(first) ==
        Once(at(first), LAMBDA p_idx : [found |-> TRUE, oob |-> p_idx >= Len(c.images),
                                        i_idx |-> first, p_idx |-> p_idx])
      find_map(stops) ==
        IF stops = {} THEN none
        ELSE Once(CHOOSE i \in stops : \A j \in stops : i <= j, taken)
  IN IF Len(c.images) = 0 \/ c.iteration >= prerender \/ idx_end = 0 THEN none
     ELSE Once({i \in 0..(prerender - 1) :
                  Once(at(i), LAMBDA p_idx : \/ p_idx >= Len(c.images)
                                            \/ c.images[p_idx + 1] # NoInfo)},
               find_map)

\* converter.rs 190-198 and 214-218: a message is taken, in a burst or
\* while waiting
CvRecv ==
  /\ cv.pc = "run"
  /\ toC # <<>>
  /\ cv' = [cv_handle_notif(cv, Head(toC)) EXCEPT !.iteration = 0]
  /\ toC' = Tail(toC)
  /\ last' = [LastRec("C", "recv", 0, <<>>) EXCEPT !.before = <<Head(toC)>>]
  /\ UNCHANGED <<disk, rd, ui, toR, fromR, fromC, env>>

\* converter.rs 200-211: no message waits and a page is converted
CvConvert ==
  /\ cv.pc = "run"
  /\ toC = <<>>
  /\ \E np \in {next_page(cv)} :
        /\ np.found
        /\ IF np.oob
           THEN /\ cv' = [cv EXCEPT !.pc = "panicked"]
                /\ fromC' = fromC
           ELSE /\ cv' = [cv EXCEPT !.images[np.p_idx + 1] = NoInfo,
                                    !.iteration = np.i_idx]
                /\ fromC' = Append(fromC, ConvertedPage("ConvertedPage", np.p_idx,
                                                        cv.images[np.p_idx + 1]))
        /\ last' = LastRec("C", "convert", np.p_idx, <<>>)
  /\ UNCHANGED <<disk, rd, ui, toR, fromR, toC, env>>

\* converter.rs 124-151: the page is decoded and Image::shm_from fails; the
\* PageInfo is taken out of the holding vector, the iteration is not
\* updated and Err(RenderError::Converting) is sent
CvShmFails ==
  /\ cv.pc = "run"
  /\ toC = <<>>
  /\ env > 0
  /\ \E np \in {next_page(cv)} :
        /\ np.found /\ ~np.oob
        /\ cv' = [cv EXCEPT !.images[np.p_idx + 1] = NoInfo]
        /\ last' = LastRec("C", "shmFailed", np.p_idx, <<>>)
  /\ fromC' = Append(fromC, ConvertedPage("Err", 0, 0))
  /\ env' = env - 1
  /\ UNCHANGED <<disk, rd, ui, toR, fromR, toC>>

ConverterInit == [pc |-> "run", images |-> <<>>, page |-> 0, iteration |-> 0]

----------------------------------------------------------------------------
(* main.rs: on_notify_ev, the debounced events of the file watcher *)

\* the file is replaced by a document of d pages: a Reload is sent
FileChanged(d) ==
  /\ disk' = d
  /\ toR' = Append(toR, RenderNotif("Reload", 0, <<>>))
  /\ env' = env - 1
  /\ last' = LastRec("W", "changed", d, <<>>)
  /\ UNCHANGED <<rd, ui, cv, fromR, toC, fromC>>

\* the file is removed: the error goes to the UI and no Reload is sent
FileRemoved ==
  /\ disk # 0
  /\ disk' = 0
  /\ fromR' = Append(fromR, RenderInfo("ErrNotify", 0, 0))
  /\ env' = env - 1
  /\ last' = LastRec("W", "removed", 0, <<>>)
  /\ UNCHANGED <<rd, ui, cv, toR, toC, fromC>>

----------------------------------------------------------------------------
(* The system *)

\* what the user does: into the search prompt only search characters are
\* typed, after g only numbers up to MaxGoTo, and outside of a prompt only
\* as many events as the environment has acts left
Typable(ev) ==
  CASE ui.bottom_msg.k = "Input_Search" ->
         /\ ev \in PromptKeys
         /\ ev.k = "Char" => (ev.c \in TermChars /\ Len(ui.bottom_msg.s) < MaxTermLen)
    [] ui.bottom_msg.k = "Input_GoToPage" ->
         /\ ev \in PromptKeys
         /\ ev.k = "Char" => (IsDigit(ev.c) /\ (ui.bottom_msg.n * 10) + DigitOf(ev.c) <= MaxGoTo)
    [] OTHER ->
         /\ ev.k = "Char" => ev.c \notin TermChars /\ ~IsDigit(ev.c)
         /\ ev.k \notin {"Enter", "Backspace"}
         /\ env > 0

InitWith(disks, limits, sizes, fss, rtls, wides, acts) ==
  /\ disk \in disks
  /\ rd \in {RendererInit(l) : l \in limits}
  /\ ui \in {TuiNew(w, f, r, m) : w \in sizes, f \in fss, r \in rtls, m \in wides}
  /\ cv = ConverterInit
  /\ toR = <<>> /\ fromR = <<>> /\ toC = <<>> /\ fromC = <<>>
  /\ env = acts
  /\ last = LastInit

\* the steps of the Renderer outside of a search
RendererPages ==
  \/ RenderOpen \/ RenderWaitReload \/ RenderWaitArea \/ RenderPass \/ RenderPoll
  \/ RenderIdle

Converter == CvRecv \/ CvConvert

\* the UI takes a message; the terminal may fail its requests
UiMessages(may_fail) ==
  \/ UiRenderInfo(may_fail /\ env > 0)
  \/ UiConverted(may_fail /\ env > 0)

\* the user causes one of the events, or types into the prompt that is open
UserDoes(events, may_fail) ==
  \E ev \in events \cup PromptKeys :
    /\ EventCost(ui, ev) = 0 \/ ev \in events
    /\ Typable(ev)
    /\ UiEvent(ev, may_fail /\ env - EventCost(ui, ev) > 0)

\* the file is replaced by a document with one of these page counts
FileBecomes(sizes) ==
  \E d \in sizes : env > 0 /\ FileChanged(d)

----------------------------------------------------------------------------
(* The viewer while the file on disk is replaced and the user turns pages *)

InitReload == InitWith(0..MaxPages, {0}, {8}, {FALSE}, {FALSE}, {0}, MaxActs)

NextReload ==
  \/ UiStart
  \/ RendererPages
  \/ Converter
  \/ UiMessages(FALSE)
  \/ UserDoes(NavKeys, FALSE)
  \/ FileBecomes(1..MaxPages)

SpecReload == InitReload /\ [][NextReload]_vars

----------------------------------------------------------------------------
(* The UI and the Renderer of a viewer started with -p 1 while the file is *)
(* replaced and the user turns pages; what the UI sends to the Converter   *)
(* stays in its channel                                                    *)

InitShrink == InitWith(1..MaxPages, {1}, {8}, {FALSE}, {FALSE}, {0}, MaxActs)

NextShrink ==
  \/ UiStart
  \/ RenderOpen \/ RenderWaitArea \/ RenderPass \/ RenderPoll \/ RenderIdle
  \/ UiRenderInfo(FALSE)
  \/ UserDoes(NavKeys, FALSE)
  \/ FileBecomes(1..MaxPages)

SpecShrink == InitShrink /\ [][NextShrink]_vars

----------------------------------------------------------------------------
(* The UI and the Renderer of a viewer started with -p 1 while the user    *)
(* turns pages, goes to pages, searches and jumps between the results and  *)
(* the file is replaced                                                    *)

BrowseEvents ==
  NavKeys \cup ArrowKeys \cup ScrollEvents \cup ResultKeys
    \cup {Event("Char", "g", 0), Event("Char", "/", 0)}

NextBrowse ==
  \/ UiStart
  \/ RenderOpen \/ RenderWaitArea \/ RenderPass \/ RenderPoll \/ RenderIdle
  \/ RenderSweep
  \/ UiRenderInfo(FALSE)
  \/ UserDoes(BrowseEvents, FALSE)
  \/ FileBecomes(1..MaxPages)

SpecBrowse == InitShrink /\ [][NextBrowse]_vars

----------------------------------------------------------------------------
(* The whole viewer on a terminal that is resized and that may fail the    *)
(* requests of a frame                                                     *)

InitKitty == InitWith({MaxPages}, {0}, {8}, {FALSE}, {FALSE, TRUE}, {0}, MaxActs)

NextKitty ==
  \/ UiStart
  \/ RenderOpen \/ RenderWaitArea \/ RenderPass \/ RenderPoll \/ RenderIdle
  \/ Converter
  \/ UiMessages(TRUE)
  \/ UserDoes(ResizeEvents, TRUE)

SpecKitty == InitKitty /\ [][NextKitty]_vars

----------------------------------------------------------------------------
(* The viewer while the user turns pages and searches.  The Renderer is a  *)
(* thread of its own and the UI loop takes every message that waits, so   *)
(* both are scheduled fairly; the user owes nothing.                       *)

InitSearch == InitWith(1..MaxPages, 0..MaxLimit, {8}, {FALSE}, {FALSE}, {0}, MaxActs)

SearchEvents == NavKeys \cup {Event("Char", "/", 0)}

RendererSteps ==
  \/ RenderOpen \/ RenderWaitArea \/ RenderPass \/ RenderPoll \/ RenderSweep
  \/ RenderIdle

NextSearch ==
  \/ UiStart
  \/ RenderOpen \/ RenderWaitArea \/ RenderPass \/ RenderPoll \/ RenderSweep
  \/ RenderIdle
  \/ UiRenderInfo(FALSE)
  \/ UserDoes(SearchEvents, FALSE)

SpecSearch ==
  /\ InitSearch /\ [][NextSearch]_vars
  /\ WF_vars(RendererSteps)
  /\ WF_vars(UiStart \/ UiRenderInfo(FALSE))

----------------------------------------------------------------------------
(* The Renderer while the user searches, drops the search, turns pages and *)
(* resizes the terminal                                                    *)

FindEvents ==
  {Event("Char", c, 0) : c \in {"/", "l", "h"}} \cup ResizeEvents

NextFind ==
  \/ UiStart
  \/ RenderOpen \/ RenderWaitArea \/ RenderPass \/ RenderPoll \/ RenderSweep
  \/ RenderIdle
  \/ UiRenderInfo(FALSE)
  \/ UserDoes(FindEvents, FALSE)

SpecFind == InitSearch /\ [][NextFind]_vars

----------------------------------------------------------------------------
(* The viewer while the user searches, goes to a page and jumps from       *)
(* result to result with n and N, in a document of one page more than      *)
(* MaxPages and with one act more than MaxActs: a search, a go-to and a    *)
(* jump with two results to choose from                                    *)

InitJump == InitWith({MaxPages + 1}, {1}, {8}, {FALSE}, {FALSE}, {0}, MaxActs + 1)

JumpEvents == ResultKeys \cup {Event("Char", c, 0) : c \in {"/", "g"}}

NextJump ==
  \/ UiStart
  \/ RenderOpen \/ RenderWaitArea \/ RenderPass \/ RenderPoll \/ RenderSweep
  \/ RenderIdle
  \/ UiRenderInfo(FALSE)
  \/ UserDoes(JumpEvents, FALSE)

SpecJump == InitJump /\ [][NextJump]_vars

----------------------------------------------------------------------------
(* The viewer while the user turns the pages of a document of two pages    *)
(* more than MaxPages, with one act more than MaxActs: from the first page *)
(* three pages forward                                                     *)

InitTurn == InitWith({MaxPages + 2}, {1}, {8}, {FALSE}, {FALSE}, {0}, MaxActs + 1)

TurnEvents == NavKeys \cup ArrowKeys \cup ScrollEvents

NextTurn ==
  \/ UiStart
  \/ RenderOpen \/ RenderWaitArea \/ RenderPass \/ RenderPoll \/ RenderIdle
  \/ UiRenderInfo(FALSE)
  \/ UserDoes(TurnEvents, FALSE)

SpecTurn == InitTurn /\ [][NextTurn]_vars

----------------------------------------------------------------------------
(* The UI and the Renderer while the file is replaced, removed and written *)
(* again, from a start with or without a readable file                    *)

InitReopen == InitWith(0..MaxPages, {0}, {8}, {FALSE}, {FALSE}, {0}, MaxActs)

NextReopen ==
  \/ UiStart
  \/ RendererPages
  \/ UiRenderInfo(FALSE)
  \/ UserDoes(NavKeys, FALSE)
  \/ FileBecomes(0..MaxPages)

SpecReopen == InitReopen /\ [][NextReopen]_vars

----------------------------------------------------------------------------
(* The UI and the Renderer while the user searches and steps of single     *)
(* pages fail, with all pages rendered ahead or only the current one       *)

InitFaulty == InitWith({MaxPages}, {0, 1}, {8}, {FALSE}, {FALSE}, {0}, MaxActs + 1)

NextFaulty ==
  \/ UiStart
  \/ RenderOpen \/ RenderWaitArea \/ RenderPass \/ RenderPoll \/ RenderSweep
  \/ RenderIdle
  \/ RenderPageFails \/ RenderCountFails
  \/ UiRenderInfo(FALSE)
  \/ UserDoes({Event("Char", "/", 0)}, FALSE)

SpecFaulty == InitFaulty /\ [][NextFaulty]_vars

----------------------------------------------------------------------------
(* The viewer until the UI is gone, started with or without a readable    *)
(* file: the start may fail, the user may quit, turn pages and search.     *)
(* Once the UI is gone nothing can be sent to it.                          *)

InitHangup == InitWith(0..MaxPages, {1}, {8}, {FALSE}, {FALSE}, {0}, MaxActs)

HangupEvents ==
  {Event("Char", "q", 0), Event("Char", "l", 0), Event("Char", "/", 0)}

\* the steps of the Renderer and the Converter that send to the UI
Senders ==
  /\ ui.pc \notin Gone
  /\ (RenderOpen \/ RenderPass \/ RenderSweep \/ CvConvert)

NextHangup ==
  \/ UiStart \/ UiStartFails
  \/ Senders
  \/ RenderWaitReload \/ RenderWaitArea \/ RenderPoll \/ RenderIdle
  \/ CvRecv
  \/ RenderHangup \/ CvHangup
  \/ UiMessages(FALSE)
  \/ UserDoes(HangupEvents, FALSE)

SpecHangup == InitHangup /\ [][NextHangup]_vars

----------------------------------------------------------------------------
(* The Prerender Order Iterator alone, over every range and anchor that a  *)
(* usize of UsizeBits bits can hold: rd is the iterator and fromR the      *)
(* values it has yielded                                                   *)

\* the number of values taken
MaxTake == (2 * UsizeMax) + 2

InitIter ==
  /\ rd \in {IterNew(a, mn, mx) : a \in 0..UsizeMax, mn \in 0..UsizeMax, mx \in 1..UsizeMax}
  /\ rd.inclusive_min <= rd.around /\ rd.around < rd.exclusive_max
  /\ fromR = <<>>
  /\ disk = 0 /\ ui = TuiNew(8, FALSE, FALSE, 0) /\ cv = ConverterInit
  /\ toR = <<>> /\ toC = <<>> /\ fromC = <<>>
  /\ env = 0
  /\ last = LastInit

\* one call of next()
IterNext ==
  /\ rd.pc = "iter"
  /\ Len(fromR) < MaxTake
  /\ \E v \in IterReturns(rd) :
       IF v = Panic
       THEN rd' = [rd EXCEPT !.pc = "panicked"] /\ fromR' = fromR
       ELSE rd' = IterAdvanced(rd) /\ fromR' = Append(fromR, v)
  /\ UNCHANGED <<disk, ui, cv, toR, toC, fromC, env, last>>

SpecIter == InitIter /\ [][IterNext]_vars

----------------------------------------------------------------------------
(* The viewer on a Kitty terminal while the user suspends it with Ctrl-Z   *)
(* and resizes the window                                                  *)

InitSuspend == InitWith({MaxPages}, {0}, {8}, {FALSE}, {FALSE}, {0}, MaxActs)

NextSuspend ==
  \/ UiStart
  \/ RenderOpen \/ RenderWaitArea \/ RenderPass \/ RenderPoll \/ RenderIdle
  \/ Converter
  \/ UiMessages(FALSE)
  \/ UserDoes(ResizeEvents \cup {CtrlZ}, FALSE)

SpecSuspend == InitSuspend /\ [][NextSuspend]_vars

----------------------------------------------------------------------------
(* The viewer on a Kitty terminal whose shared memory may fail while the   *)
(* user resizes the window                                                 *)

InitShm == InitWith({MaxPages}, {0}, {8}, {FALSE}, {FALSE}, {0}, MaxActs)

NextShm ==
  \/ UiStart
  \/ RenderOpen \/ RenderWaitArea \/ RenderPass \/ RenderPoll \/ RenderIdle
  \/ Converter \/ CvShmFails
  \/ UiMessages(FALSE)
  \/ UserDoes(ResizeEvents, FALSE)

SpecShm == InitShm /\ [][NextShm]_vars

----------------------------------------------------------------------------
(* The UI and the Renderer while the user turns pages and resizes the      *)
(* window during the render pass and steps of single pages fail            *)

InitCancel == InitWith({MaxPages + 1}, {0}, {8}, {FALSE}, {FALSE}, {0}, MaxActs)

CancelEvents == {Event("Char", "l", 0), Event("Char", "h", 0)} \cup ResizeEvents

NextCancel ==
  \/ UiStart
  \/ RenderOpen \/ RenderWaitArea \/ RenderPass \/ RenderPoll \/ RenderIdle
  \/ RenderPageFails
  \/ UiRenderInfo(FALSE)
  \/ UserDoes(CancelEvents, FALSE)

SpecCancel == InitCancel /\ [][NextCancel]_vars

----------------------------------------------------------------------------
(* The viewer with a prerender limit of one page on a terminal wide enough  *)
(* for two pages, which may fail the requests of a frame, while the user    *)
(* turns pages                                                              *)

InitRerender ==
  InitWith({MaxPages + 1}, {1}, {12}, {FALSE}, {FALSE}, {0}, MaxActs + 1)

RerenderEvents == {Event("Char", "l", 0), Event("Char", "h", 0)}

NextRerender ==
  \/ UiStart
  \/ RenderOpen \/ RenderWaitArea \/ RenderPass \/ RenderPoll \/ RenderIdle
  \/ Converter
  \/ UiMessages(TRUE)
  \/ UserDoes(RerenderEvents, TRUE)

SpecRerender == InitRerender /\ [][NextRerender]_vars

----------------------------------------------------------------------------
(* The viewer while the user inverts, rotates, zooms and resizes the        *)
(* window; the file is readable from the start, or unreadable at first and  *)
(* written later                                                            *)

InitSettings ==
  \/ InitWith({MaxPages}, {0, 1}, {8}, {FALSE}, {FALSE}, {0}, MaxActs + 1)
  \/ InitWith({0}, {0}, {8}, {FALSE}, {FALSE}, {0}, MaxActs + 2)

SettingEvents ==
  {Event("Char", c, 0) : c \in {"i", "r", "z"}} \cup ResizeEvents

NextSettings ==
  \/ UiStart
  \/ RendererPages
  \/ UiRenderInfo(FALSE)
  \/ UserDoes(SettingEvents, FALSE)
  \/ FileBecomes({1})

SpecSettings == InitSettings /\ [][NextSettings]_vars

----------------------------------------------------------------------------
(* The Renderer with and without a prerender limit, on a document of a few  *)
(* pages and on one with more pages than a pass takes during a search,      *)
(* while the user turns pages and searches                                  *)

InitWindow ==
  \/ InitWith({MaxPages + 1}, 0..MaxLimit, {8}, {FALSE}, {FALSE}, {0}, MaxActs)
  \/ InitWith({SEARCH_PASS_TAKE + 1}, {0}, {8}, {FALSE}, {FALSE}, {0}, 1)

WindowEvents == {Event("Char", c, 0) : c \in {"/", "l"}}

NextWindow ==
  \/ UiStart
  \/ RenderOpen \/ RenderWaitArea \/ RenderPass \/ RenderPoll \/ RenderSweep
  \/ RenderIdle
  \/ UiRenderInfo(FALSE)
  \/ UserDoes(WindowEvents, FALSE)

SpecWindow == InitWindow /\ [][NextWindow]_vars

----------------------------------------------------------------------------
(* The viewer while pages arrive and the user turns pages, resizes the     *)
(* terminal and toggles the zoom, left-to-right and right-to-left, with    *)
(* and without a largest number of pages side by side.                     *)

InitFrames ==
  \/ InitWith({MaxPages}, {0}, Widths, {FALSE}, {FALSE, TRUE}, {0}, MaxActs)
  \/ InitWith({MaxPages}, {0}, {12}, {FALSE}, {FALSE}, {1}, MaxActs)

FrameEvents == {Event("Char", c, 0) : c \in {"l", "z"}}

NextFrames ==
  \/ UiStart
  \/ RenderOpen \/ RenderWaitArea \/ RenderPass \/ RenderPoll \/ RenderIdle
  \/ Converter
  \/ UiMessages(FALSE)
  \/ UserDoes(FrameEvents, FALSE)

SpecFrames == InitFrames /\ [][NextFrames]_vars

----------------------------------------------------------------------------
(* The Converter alone, fed with the messages the UI sends it: NumPages    *)
(* for the document first, then AddImg for the pages the Renderer has      *)
(* produced and GoToPage for the jumps of the user.  The Converter is a    *)
(* task of the runtime and is scheduled fairly; the UI owes nothing.       *)

\* the pages whose images arrive and the pages the user jumps to
FedPages == {0, 2, disk - 1}
AnchorPages == {1, disk - 1}
\* the most messages that wait for the Converter
MaxWaiting == 2

\* main.rs 398-401, 424-431: a message of the UI to the Converter
UiFeeds ==
  /\ cv.pc = "run"
  /\ \E m \in {ConverterMsg("NumPages", disk, 0)}
            \cup {ConverterMsg("AddImg", q, b) : q \in FedPages, b \in {0, 1}}
            \cup {ConverterMsg("GoToPage", q, 0) : q \in AnchorPages} :
       /\ IF m.t = "NumPages"
          THEN cv.images = <<>> /\ toC = <<>> /\ env' = env
          ELSE /\ cv.images # <<>> /\ Len(toC) < MaxWaiting
               /\ env > 0 /\ env' = env - 1
       /\ toC' = Append(toC, m)
       /\ last' = [LastRec("U", "feed", m.a, <<>>) EXCEPT !.sentC = <<m>>]
  /\ UNCHANGED <<disk, rd, ui, cv, toR, fromR, fromC>>

InitConvert ==
  InitWith({MaxPages + 1, CONVERTER_PRERENDER + 2}, {0}, {8}, {FALSE}, {FALSE}, {0},
           MaxActs + 2)

NextConvert == UiFeeds \/ CvRecv \/ CvConvert

SpecConvert == InitConvert /\ [][NextConvert]_vars /\ WF_vars(CvRecv \/ CvConvert)

----------------------------------------------------------------------------
(* The viewer while the user opens and closes the prompts and the help     *)
(* page.  Any of the keys may be pressed in any state of the bottom bar.   *)

InitMessages == InitWith({1}, {1}, {8}, {FALSE}, {FALSE}, {0}, MaxActs + 1)

MessageKeys ==
  {Event("Char", c, 0) : c \in {"g", "/", "?", "q", "2"}}
    \cup {Event("Esc", "", 0), Event("Enter", "", 0)}

\* the term and the number typed stay within their bounds; outside of a
\* prompt a key is an act of the user
Pressable(ev) ==
  CASE ui.bottom_msg.k = "Input_Search" ->
         ev.k = "Char" => Len(ui.bottom_msg.s) < MaxTermLen
    [] ui.bottom_msg.k = "Input_GoToPage" ->
         (ev.k = "Char" /\ IsDigit(ev.c))
           => (ui.bottom_msg.n * 10) + DigitOf(ev.c) <= MaxGoTo
    [] OTHER -> env > 0

UserPresses(events) == \E ev \in events : Pressable(ev) /\ UiEvent(ev, FALSE)

NextMessages ==
  \/ UiStart
  \/ RenderOpen \/ RenderWaitArea \/ RenderPass \/ RenderPoll \/ RenderSweep
  \/ RenderIdle
  \/ UiRenderInfo(FALSE)
  \/ UserPresses(MessageKeys)

SpecMessages == InitMessages /\ [][NextMessages]_vars

----------------------------------------------------------------------------
(* Claims *)

\* C1 (as stated): every Page the Renderer emits has a page_num below the
\* page count of its most recent NumPages, and the Renderer never indexes
\* its per-page table `rendered` outside of it.
C1_PagesAndIndexesInRange ==
  /\ (last.who = "R" /\ last.act = "page") => last.n \in 0..(rd.n_pages - 1)
  /\ rd.pc # "panicked"

\* the vectors of at most MaxPages slots with the contents a slot can have
SlotValues ==
  {RenderedInfoDefault, [img |-> "NotYet", num_results |-> 0],
   [img |-> "Transferred", num_results |-> NoCount]}
SomeVectors ==
  UNION {[1..n -> SlotValues] : n \in 0..MaxPages}

\* C2: right after the UI has processed NumPages(N) its Page Buffer has
\* exactly N slots, each without image and with num_results unknown, whatever
\* it held before; and fill_default(v, N) turns every vector v into exactly N
\* defaulted elements.
C2_NumPagesResetsBuffer ==
  /\ (last.who = "U" /\ last.act = "NumPages") =>
        /\ Len(ui.rendered) = last.n
        /\ \A i \in 1..Len(ui.rendered) : ui.rendered[i] = RenderedInfoDefault
  /\ \A v \in SomeVectors : \A n \in 0..MaxPages :
        fill_default(v, n, RenderedInfoDefault) = [i \in 1..n |-> RenderedInfoDefault]

\* a NumPages(N) has replaced a buffer of another length that held a result
C2_Witness ==
  /\ last.who = "U" /\ last.act = "NumPages"
  /\ Len(last.prev) > 0 /\ Len(last.prev) # last.n
  /\ \E i \in 1..Len(last.prev) : last.prev[i] # RenderedInfoDefault

\* C3: once the first NumPages has been processed (the buffer has slots),
\* the current page is the index of a slot of the Page Buffer, whatever
\* NumPages, navigation keys, go-to-page and n/N jumps did.
C3_PageInBuffer ==
  Len(ui.rendered) > 0 => ui.page \in 0..(Len(ui.rendered) - 1)

\* a NumPages(N) has arrived while the current page was N or more
C3_Witness ==
  /\ last.who = "U" /\ last.act = "NumPages"
  /\ last.page_before >= last.n
  /\ ui.page = last.n - 1

\* the requests of a frame for page k are at most one Display by id
OnlyDisplayed(ops, k) ==
  LET o == SelectSeq(ops, LAMBDA x : x.slot = k)
  IN Len(o) <= 1 /\ \A i \in 1..Len(o) : o[i].op = "Display"

\* C4 (as stated): once TransmitAndDisplay has succeeded for page k, every
\* later frame that shows k, with no PageNeedsReRender(k) in between, issues
\* at most one Display by id for k and no TransmitAndDisplay.
C4_NoRetransmitAsStated ==
  \A k \in last.transmitted_then : OnlyDisplayed(last.ops, k)

\* C4 (amended): the same as long as, in addition, the UI has stored no new
\* ConvertedPage for k and processed no NumPages in between.
C4_NoRetransmitWhileHeld ==
  \A k \in last.held_then : OnlyDisplayed(last.ops, k)

\* the frame of a resize that lets one more page fit: the page shown before
\* is displayed by id and the new one is transmitted
C4_Witness ==
  /\ last.who = "U" /\ last.ev.k = "Resize"
  /\ Len(last.ops) = 2
  /\ last.ops[1].op = "Display" /\ last.ops[1].res = "ok"
  /\ last.ops[2].op = "TransmitAndDisplay" /\ last.ops[2].res = "ok"
  /\ last.ops[1].slot \in last.held_then

\* the search terms the user can type
Terms == UNION {[1..n -> TermChars] : n \in 1..MaxTermLen}

\* the UI has just sent Search(t)
SearchSent(t) ==
  last.who = "U" /\ last.action.t = "Search" /\ last.action.s = t

\* the UI or the watcher has just sent the Renderer something else than
\* Search(t)
FurtherNotif(t) ==
  \/ last.who = "W"
  \/ last.who = "U" /\ last.sentR # <<>> /\ ~SearchSent(t)

\* the UI holds, for every page of the document, the count of term t
CountsKnown(t) ==
  /\ Len(ui.rendered) = disk
  /\ \A p \in 0..(disk - 1) : ui.rendered[p + 1].num_results = HitCount(t, p)

\* the Renderer at the start of the sweep for a document of n pages of
\* which none is counted, with the page p current
SweepStart(n, p) ==
  [RendererInit(0) EXCEPT !.pc = "sweep", !.stored_doc = n, !.n_pages = n,
                          !.rendered = fill_default(<<>>, n, PrevRenderDefault),
                          !.start_point = p, !.search_start = p,
                          !.search_term = <<"a">>, !.preserved_area = 4]

\* the Renderer after at most k undisturbed turns of the sweep
RECURSIVE SweepRun(_, _)
SweepRun(r, k) ==
  IF k = 0 \/ r.pc \notin {"sweep", "sweepPoll"} THEN r
  ELSE SweepRun(SweepTurn(r).r, k - 1)

\* more turns than a sweep of n pages needs to come around
SweepTurns(n) == (2 * (n \div SEARCH_AT_TIME)) + 4

\* the sweep alone counts every page, for every page count and start page
SweepCountsAll ==
  \A n \in 1..MaxDocPages : \A p \in 0..(n - 1) :
    LET r == SweepRun(SweepStart(n, p), SweepTurns(n))
    IN \A i \in 1..n : r.rendered[i].num_search_found = HitCount(<<"a">>, i - 1)

\* C5 (as stated): after the UI has sent Search(t) with a term t, and unless
\* a further notification is sent, the UI eventually holds the count of t
\* for every page of the document, whatever the page count, the current page
\* and the prerender limit are; and the sweep alone reaches every page from
\* every start page.
C5_SearchCountsArrive ==
  /\ SweepCountsAll
  /\ \A t \in Terms : SearchSent(t) ~> (CountsKnown(t) \/ FurtherNotif(t))

\* while a term is set, a count the Renderer knows is the count of that term
CountsAreOfTerm ==
  rd.search_term # <<>> =>
    \A i \in 1..Len(rd.rendered) :
      rd.rendered[i].num_search_found # NoCount =>
        rd.rendered[i].num_search_found = HitCount(rd.search_term, i - 1)

\* C6 (as stated): in every state of the Renderer, while a search term is
\* set a page's num_search_found is unknown until the page has been scanned
\* for that term, and while no term is set every page with successful = true
\* has num_search_found = 0.
C6_CountsAsStated ==
  /\ CountsAreOfTerm
  /\ rd.search_term = <<>> =>
       \A i \in 1..Len(rd.rendered) :
         rd.rendered[i].successful => rd.rendered[i].num_search_found = 0

\* C6 (amended): while a term is set, as stated; while no term is set, every
\* page with successful = true has num_search_found 0 or unknown, and no
\* page has a positive num_search_found.
C6_CountsWhileSearching ==
  /\ CountsAreOfTerm
  /\ rd.search_term = <<>> =>
       \A i \in 1..Len(rd.rendered) :
         /\ rd.rendered[i].successful => rd.rendered[i].num_search_found \in {0, NoCount}
         /\ rd.rendered[i].num_search_found <= 0

\* the Renderer has taken Search("") right after Search(term): the term is
\* unset and a page rendered before is successful with its count unknown
C6_Witness ==
  /\ last.who = "R" /\ last.act = "notif"
  /\ last.before = <<RenderNotif("Search", 0, <<>>)>>
  /\ rd.search_term = <<>>
  /\ \E i \in 1..Len(rd.rendered) :
       rd.rendered[i].successful /\ rd.rendered[i].num_search_found = NoCount

\* the Renderer takes a Search("") in a poll or when idle
TakesEmptySearch ==
  /\ rd.pc \in {"poll", "sweepPoll", "idle"}
  /\ toR # <<>> /\ Head(toR) = RenderNotif("Search", 0, <<>>)
  /\ toR' = Tail(toR)

\* the step drops the term; the pages with a positive count become
\* unsuccessful with the count `cleared`, the others stay as they are
EmptySearchEffect(cleared) ==
  /\ rd'.search_term = <<>>
  /\ Len(rd'.rendered) = Len(rd.rendered)
  /\ \A i \in 1..Len(rd.rendered) :
       rd'.rendered[i] = IF rd.rendered[i].num_search_found > 0
                         THEN [successful |-> FALSE, num_search_found |-> cleared]
                         ELSE rd.rendered[i]

\* the Renderer emits a Page
EmitsPage == last'.who = "R" /\ last'.act = "page"

\* a Page is emitted only for a page that was unsuccessful or uncounted, and
\* while no term is set it carries no highlight
PageIsDue ==
  /\ ~(rd.rendered[last'.n + 1].successful
        /\ rd.rendered[last'.n + 1].num_search_found # NoCount)
  /\ rd'.search_term = <<>> => fromR'[Len(fromR')].b = 0

Pressed(c) ==
  last.who = "U" /\ last.act = "event" /\ last.ev = Event("Char", c, 0)

\* the pages with a known positive count among the pages lo..hi
WithResults(lo, hi) ==
  {p \in lo..hi : p < Len(ui.rendered) /\ ui.rendered[p + 1].num_results > 0}

\* the turn has moved to page p and told the Renderer and the Converter, or
\* (p = the page before) it has stayed and sent nothing
JumpedTo(p) ==
  /\ ui.page = p
  /\ last.sentR = IF p = last.page_before THEN <<>>
                  ELSE <<RenderNotif("JumpToPage", p, <<>>)>>
  /\ last.sentC = IF p = last.page_before THEN <<>>
                  ELSE <<ConverterMsg("GoToPage", p, 0)>>

\* C8: n moves to the smallest page above the current one whose known count
\* is positive, N to the largest such page below it, and JumpToPage is sent
\* for it; when there is no such page the current page stays and nothing is
\* sent.  n and N never land on a page whose count is 0 or unknown.
C8_ResultJumps ==
  /\ Pressed("n") =>
       LET above == WithResults(last.page_before + 1, Len(ui.rendered) - 1)
       IN IF above = {} THEN JumpedTo(last.page_before)
          ELSE \E p \in above : JumpedTo(p) /\ \A q \in above : p <= q
  /\ Pressed("N") =>
       LET below == WithResults(0, last.page_before - 1)
       IN IF below = {} THEN JumpedTo(last.page_before)
          ELSE \E p \in below : JumpedTo(p) /\ \A q \in below : p >= q

\* n has jumped to the nearer of two pages with results
C8_Witness ==
  /\ Pressed("n")
  /\ ui.page = last.page_before + 1
  /\ WithResults(ui.page + 1, Len(ui.rendered) - 1) # {}
  /\ last.sentR = <<RenderNotif("JumpToPage", ui.page, <<>>)>>

\* the user has caused one of the navigation events
Turned == last.who = "U" /\ last.act = "event" /\ last.ev \in TurnEvents

\* the events that turn one page forward, and one page back
OneForward == {Event("Char", "l", 0), Event("Right", "", 0), Event("ScrollRight", "", 0)}
OneBack == {Event("Char", "h", 0), Event("Left", "", 0), Event("ScrollLeft", "", 0)}

\* C9: a navigation event that changes the current page to p sends exactly
\* one JumpToPage(p) to the Renderer and one GoToPage(p) to the Converter,
\* and one that leaves the page unchanged sends nothing; one page forward
\* ends on the next page, or stays on the last one, and one page back ends
\* on the page before, or stays on the first.
C9_TurnsAreAnnounced ==
  Turned =>
    /\ JumpedTo(ui.page)
    /\ last.ev \in OneForward =>
         ui.page = Min(last.page_before + 1, SatSub(Len(ui.rendered), 1))
    /\ last.ev \in OneBack => ui.page = SatSub(last.page_before, 1)

\* the third l from the first page: the page is 3 and JumpToPage(3) was the
\* last message sent
C9_Witness ==
  /\ Turned /\ last.ev = Event("Char", "l", 0)
  /\ env = 0 /\ last.page_before = 2 /\ ui.page = 3
  /\ last.sentR = <<RenderNotif("JumpToPage", 3, <<>>)>>
  /\ last.sentC = <<ConverterMsg("GoToPage", 3, 0)>>

\* the requests of the last frame that failed, and the classes of their errors
FailedOps == {j \in 1..Len(last.ops) : last.ops[j].res # "ok"}
FailedClasses == {last.ops[j].res : j \in FailedOps}

\* the bottom bar holds the error of a Kitty frame
ErrorOnBar == ui.pc = "run" /\ ui.bottom_msg.k = "Error"

\* C10: after a Kitty frame in which requests failed, the slot of every
\* failed page holds no image and a PageNeedsReRender for it was sent; an
\* error other than NoEntity that occurred in the frame is on the bottom
\* bar, and no error of class NoEntity ever is.
C10_KittyFailuresHandled ==
  /\ ErrorOnBar => ui.bottom_msg.s[2] # "NoEntity"
  /\ (last.who = "U" /\ FailedOps # {}) =>
      /\ \A j \in FailedOps :
           /\ ui.pc = "run" => ui.rendered[last.ops[j].slot + 1].img = "None"
           /\ \E i \in 1..Len(last.sentR) :
                last.sentR[i] = RenderNotif("PageNeedsReRender", last.ops[j].slot, <<>>)
      /\ "Other" \in FailedClasses => ErrorOnBar

\* the Renderer opens the file and the open fails
OpenFails == rd.pc = "open" /\ disk = 0 /\ rd' # rd

\* what the Renderer has sent in the step
SentByRenderer == SubSeq(fromR', Len(fromR) + 1, Len(fromR'))

\* C11: a failed open sends Doc(error) first; with a document stored the
\* Renderer goes on with it (its page count is announced, all its pages are
\* due again, it waits for the Area or renders); without one it sends
\* nothing else and waits; while it waits it sends nothing and only a
\* Reload takes it back to the open.
C11_FailedOpen ==
  [][/\ OpenFails =>
        /\ SentByRenderer # <<>> /\ Head(SentByRenderer) = RenderInfo("Err", 0, 0)
        /\ rd.stored_doc # 0 =>
             /\ rd'.pc \in {"waitArea", "pass"}
             /\ rd'.stored_doc = rd.stored_doc /\ rd'.n_pages = rd.stored_doc
             /\ Len(rd'.rendered) = rd.stored_doc
             /\ \A i \in 1..Len(rd'.rendered) : ~rd'.rendered[i].successful
             /\ Tail(SentByRenderer) = <<RenderInfo("NumPages", rd.stored_doc, 0)>>
        /\ rd.stored_doc = 0 =>
             /\ rd'.pc = "waitReload" /\ Len(SentByRenderer) = 1
     /\ rd.pc = "waitReload" =>
        /\ Len(fromR') <= Len(fromR)
        /\ rd.stored_doc = 0 /\ rd.rendered = <<>>
        /\ rd' # rd => (toR # <<>> /\ Head(toR).t = "Reload" /\ rd'.pc = "open")
        /\ (toR # <<>> /\ toR' = Tail(toR) /\ Head(toR).t = "Reload") => rd'.pc = "open"
    ]_vars

\* the file is gone, the Renderer has taken every Reload, and it has just
\* rendered a page of the document it had opened before
C11_Witness ==
  /\ disk = 0 /\ rd.stored_doc # 0
  /\ \A i \in 1..Len(toR) : toR[i].t # "Reload"
  /\ last.who = "R" /\ last.act = "page"

\* a step of a single page has just failed
PageFailed == last.who = "R" /\ last.act \in PageSteps \cup {"count"}

\* C12: the Renderer never panics, and when a step of a single page has
\* failed, in the render pass or in the search sweep, the error is the last
\* message it has sent and it is in the pass or in the sweep.
C12_PageFailuresSurvived ==
  /\ rd.pc # "panicked"
  /\ PageFailed =>
       /\ fromR # <<>> /\ fromR[Len(fromR)] = RenderInfo("Err", 0, 0)
       /\ rd.pc \in {"pass", "poll", "sweep", "sweepPoll"}

\* the Renderer, the Converter has just met the dropped channel
Hangup(who) == last.who = who /\ last.act = "hangup"

\* C13: when the Renderer or the Converter meets the dropped channel of a
\* UI that is gone, it returns; it does not panic.
C13_HangupReturns ==
  /\ Hangup("R") => rd.pc = "returned"
  /\ Hangup("C") => cv.pc = "returned"

\* the size of the range of the iterator
RangeLen == rd.exclusive_max - rd.inclusive_min

\* C14: the iterator does not panic, the first value it yields is the
\* anchor, and the first max - min values are in [min, max) and pairwise
\* distinct.
C14_FirstCycleVisitsAll ==
  rd.pc \in {"iter", "panicked"} =>
    /\ Len(fromR) < RangeLen => rd.pc = "iter"
    /\ fromR # <<>> => fromR[1] = rd.around
    /\ \A i \in 1..Min(Len(fromR), RangeLen) :
         /\ rd.inclusive_min <= fromR[i] /\ fromR[i] < rd.exclusive_max
         /\ \A j \in 1..(i - 1) : fromR[j] # fromR[i]

\* the offset folded into [min, max) modulo max - min
wrap(n) == rd.inclusive_min + ((n - rd.inclusive_min) % RangeLen)

\* C15: the value at position i is the anchor for i = 0, wrap(a + k) for
\* i = 2k - 1 and wrap(a - k) for i = 2k, at every position.
C15_EveryPosition ==
  rd.pc \in {"iter", "panicked"} =>
    \A n \in 1..Len(fromR) :
      LET i == n - 1
          k == (i + 1) \div 2
      IN fromR[n] = IF i % 2 = 1 THEN wrap(rd.around + k) ELSE wrap(rd.around - k)

\* the turn of the loop in which the viewer was suspended and resumed
WasResumed == last.who = "U" /\ last.act = "event" /\ last.ev = CtrlZ
             /\ last.action = ActRedraw /\ ui.pc = "run"

\* the frame of the last turn was drawn anew
DrawnAnew == last.frame \in {"DisplayImages", "ClearImages"}

\* C16 as stated: after suspend and resume the terminal is set up again
\* and the frame of the turn is drawn anew with every shown image
\* transmitted again.
C16_ResumeAsStated ==
  WasResumed =>
    /\ ui.term = TermSetUp
    /\ DrawnAnew
    /\ \A j \in 1..Len(last.ops) : last.ops[j].op = "TransmitAndDisplay"

\* C16: after suspend and resume the terminal is set up again and the
\* frame of the turn is drawn anew; in it every image the terminal already
\* holds is displayed by id, and only the others are transmitted.
C16_ResumeRedraws ==
  WasResumed =>
    /\ ui.term = TermSetUp
    /\ DrawnAnew
    /\ \A j \in 1..Len(last.ops) :
         last.ops[j].op = IF last.ops[j].slot \in last.held_then
                          THEN "Display" ELSE "TransmitAndDisplay"

\* resumed with both pages on the screen, both held by the terminal: the
\* frame displays both by id
C16_Witness ==
  /\ WasResumed
  /\ Len(last.ops) = 2
  /\ \A j \in 1..2 : last.ops[j].op = "Display" /\ last.ops[j].res = "ok"

\* the Converter has just decoded a page, with or without shared memory
Decoded == last.who = "C" /\ last.act \in {"convert", "shmFailed"} /\ cv.pc = "run"

\* C17: for every page the Converter decodes, what it sends is the Kitty
\* image of that page, also when shared memory fails.
C17_KittyImageAlways ==
  Decoded =>
    /\ fromC # <<>>
    /\ fromC[Len(fromC)].t = "ConvertedPage" /\ fromC[Len(fromC)].a = last.n

\* the Renderer is in the search sweep
InSweep == rd.pc \in {"sweep", "sweepPoll"}

\* the search sweep ends: the Renderer leaves it, for another pass or for
\* the blocking receive (a notification that arrives takes it out of the
\* sweep as well)
C19_SweepEnds == InSweep ~> ~InSweep

\* C19: the search sweep terminates and does not keep cycling over the
\* pages: a turn of the sweep that began at page 0 of a document of at most
\* SEARCH_AT_TIME pages has passed every page (start_point among them), so
\* the sweep is over after it.
C19_SweepOverAfterWrap ==
  (last.who = "R" /\ last.act = "sweep" /\ last.n = 0
     /\ rd.n_pages <= SEARCH_AT_TIME /\ rd.pc # "panicked")
    => ~InSweep

\* the Renderer attempts a page in the step
AttemptsPage ==
  rd' # rd /\ last'.who = "R" /\ last'.act \in {"page"} \cup PageSteps

\* the step takes the notification that waits and restarts the pass at its
\* first position; a JumpToPage sets the anchor
PassCutShort ==
  /\ toR' = Tail(toR)
  /\ rd'.pc = "pass" /\ rd'.iter = 0
  /\ Head(toR).t = "JumpToPage" => rd'.start_point = Head(toR).n

\* C20 as stated: once the Renderer has attempted a page of the pass it
\* attempts no further page while a notification waits, and a JumpToPage
\* or Area that waits after a page cuts the pass short.
C20_PollAfterEveryAttempt ==
  [][/\ (toR # <<>> /\ (rd.pc = "poll" \/ (rd.pc = "pass" /\ rd.iter > 0)))
          => ~AttemptsPage
     /\ (rd.pc = "poll" /\ toR # <<>> /\ Head(toR).t \in {"JumpToPage", "Area"}
           /\ rd' # rd) => PassCutShort
    ]_vars

\* C20: after a page that was sent or whose rasterization failed the
\* Renderer attempts no further page while a notification waits, and a
\* JumpToPage or Area that waits then cuts the pass short.
C20_PollAfterPage ==
  [][/\ (toR # <<>> /\ rd.pc = "poll") => ~AttemptsPage
     /\ (rd.pc = "poll" /\ toR # <<>> /\ Head(toR).t \in {"JumpToPage", "Area"}
           /\ rd' # rd) => PassCutShort
    ]_vars

\* a JumpToPage was taken after the first page of a pass over three pages:
\* the pass starts again, around the new page
C20_Witness ==
  /\ last.who = "R" /\ last.act = "notif"
  /\ last.before = <<RenderNotif("JumpToPage", 1, <<>>)>>
  /\ rd.pc = "pass" /\ rd.iter = 0 /\ rd.start_point = 1
  /\ \E i \in 1..Len(rd.rendered) : ~rd.rendered[i].successful
  /\ \E i \in 1..Len(rd.rendered) : rd.rendered[i].successful

\* the Renderer takes the PageNeedsReRender that waits, for a page it has
TakesReRender ==
  /\ rd.pc \in {"poll", "sweepPoll", "idle"}
  /\ toR # <<>> /\ toR' = Tail(toR)
  /\ Head(toR).t = "PageNeedsReRender"
  /\ Head(toR).n < Len(rd.rendered)

\* a turn of the for loop over the pages
PassTurn ==
  rd.pc \in {"pass", "poll"} /\ rd' # rd /\ toR' = toR

\* C21: PageNeedsReRender(p) clears the successful flag of page p alone and
\* puts p at the back of the queue, and the pass starts again; a turn of the
\* pass that finds the queue filled attempts the page at its front, before
\* any page of the prerender order, and takes it off the queue.
C21_QueuedFirst ==
  [][/\ TakesReRender =>
          /\ rd'.rendered = [rd.rendered EXCEPT ![Head(toR).n + 1].successful = FALSE]
          /\ rd'.need_rerender = Append(rd.need_rerender, Head(toR).n)
          /\ rd'.pc = "pass" /\ rd'.iter = 0
          /\ \A f \in {"start_point", "search_term", "preserved_area", "invert",
                        "rotate", "fit_or_fill", "n_pages"} : rd'[f] = rd[f]
     /\ (PassTurn /\ rd.need_rerender # <<>>) =>
          /\ last'.act \in {"page"} \cup PageSteps
          /\ last'.n = Head(rd.need_rerender)
          /\ rd'.need_rerender = Tail(rd.need_rerender)
          /\ rd'.iter = rd.iter
    ]_vars

\* a page that lies outside of the prerender limit around start_point was
\* rendered out of the queue while the page at start_point stayed as it was
C21_Witness ==
  /\ last.who = "R" /\ last.act = "page" /\ last.n = 1
  /\ rd.start_point = 0 /\ rd.prerender = 1 /\ rd.iter = 0
  /\ rd.need_rerender = <<>>
  /\ rd.rendered[1].successful /\ rd.rendered[2].successful
  /\ ~rd.rendered[3].successful

\* the Renderer takes the notification that waits
TakesNotif ==
  /\ rd.pc \in {"poll", "sweepPoll", "idle"}
  /\ toR # <<>> /\ toR' = Tail(toR)

\* the notification changes a setting of the rendering
ChangesSetting(m) ==
  \/ m.t \in {"Area", "Invert", "Rotate"}
  \/ m.t = "SwitchFitOrFill" /\ m.n # rd.fit_or_fill

\* the settings after the notification, as stated
SettingsAfter(m) ==
  [preserved_area |-> IF m.t = "Area" THEN m.n ELSE rd.preserved_area,
   invert |-> IF m.t = "Invert" THEN ~rd.invert ELSE rd.invert,
   rotate |-> IF m.t # "Rotate" THEN rd.rotate
              ELSE CASE rd.rotate = 0 -> 90 [] rd.rotate = 90 -> 180
                     [] rd.rotate = 180 -> 270 [] rd.rotate = 270 -> 0,
   fit_or_fill |-> IF m.t = "SwitchFitOrFill" THEN m.n ELSE rd.fit_or_fill]

\* C22: Area, Invert, Rotate and a SwitchFitOrFill to the other mode update
\* their setting and no other, clear the successful flag of every page and
\* restart the render loop, so that the pass takes up every page of the
\* prerender order again; a SwitchFitOrFill to the mode in use changes
\* nothing of the Renderer's state but the place it goes on at.
C22_SettingsRestart ==
  [][TakesNotif =>
       /\ ChangesSetting(Head(toR)) =>
            /\ \A f \in DOMAIN SettingsAfter(Head(toR)) :
                  rd'[f] = SettingsAfter(Head(toR))[f]
            /\ Len(rd'.rendered) = Len(rd.rendered)
            /\ \A i \in 1..Len(rd'.rendered) : ~rd'.rendered[i].successful
            /\ rd'.pc = "pass" /\ rd'.iter = 0 /\ rd'.take_n = TakeCount(rd')
            /\ \A f \in {"start_point", "search_term", "need_rerender", "n_pages"} :
                  rd'[f] = rd[f]
            /\ rd'.n_pages > 0 =>
                  NextToRender(rd').page = InterleavedNext(rd.start_point, 0, rd.n_pages, 0)
       /\ (Head(toR).t = "SwitchFitOrFill" /\ Head(toR).n = rd.fit_or_fill) =>
            /\ \A f \in DOMAIN rd \ {"pc", "iter", "take_n"} : rd'[f] = rd[f]
            /\ rd.pc = "poll" => (rd'.iter = rd.iter /\ rd'.take_n = rd.take_n)
    ]_vars

\* the Renderer has taken a Rotate after an Invert: the page is turned by a
\* quarter, the colours stay inverted and every page is due again
C22_Witness ==
  /\ last.who = "R" /\ last.act = "notif"
  /\ last.before = <<RenderNotif("Rotate", 0, <<>>)>>
  /\ rd.rotate = 90 /\ rd.invert
  /\ Len(rd.rendered) = MaxPages
  /\ \A i \in 1..Len(rd.rendered) : ~rd.rendered[i].successful
  /\ Len(fromR) > 0 /\ fromR[Len(fromR)].t = "Page"

\* the page of the turn was attempted: rendered and sent, or failed
Attempted == last'.act \in {"page"} \cup PageSteps

\* the page was rendered successfully and its count is known
UpToDate(r, page) ==
  /\ page < Len(r.rendered)
  /\ r.rendered[page + 1].successful
  /\ r.rendered[page + 1].num_search_found # NoCount

\* C23: JumpToPage(p) sets start_point to p and changes nothing else of the
\* Renderer's state (the pass starts again); a page that is successful with
\* a known count is not attempted by a turn of the pass.
C23_JumpKeepsPages ==
  [][/\ (TakesNotif /\ Head(toR).t = "JumpToPage") =>
          /\ rd'.start_point = Head(toR).n
          /\ \A f \in DOMAIN rd \ {"start_point", "pc", "iter", "take_n"} :
                rd'[f] = rd[f]
          /\ rd'.pc = "pass" /\ rd'.iter = 0
     /\ (PassTurn /\ Attempted) => ~UpToDate(rd, last'.n)
    ]_vars

\* the user went to page 1 and back: the pass after the jump back to page 0
\* has ended without a page, since page 0 is successful
C23_Witness ==
  /\ last.who = "R" /\ last.act = "passEnd"
  /\ rd.start_point = 0 /\ rd.prerender = 1 /\ rd.iter = 1
  /\ Len(rd.rendered) = 2
  /\ rd.rendered[1].successful /\ rd.rendered[2].successful
  /\ toR = <<>>

\* Search(term) with a term: the term is set, every count is unknown and
\* the successful flags are as before
SearchSetsTerm ==
  (TakesNotif /\ Head(toR).t = "Search" /\ Head(toR).s # <<>>) =>
     /\ rd'.search_term = Head(toR).s
     /\ Len(rd'.rendered) = Len(rd.rendered)
     /\ \A i \in 1..Len(rd.rendered) :
          /\ rd'.rendered[i].num_search_found = NoCount
          /\ rd'.rendered[i].successful = rd.rendered[i].successful

\* C24: Search(term) with a non-empty term sets the term and marks every
\* count unknown without changing a successful flag; afterwards a page that
\* was rendered successfully and has no hit for the term is counted only:
\* no turn of the pass renders and sends it again.
C24_NoHitsNotRenderedAgain ==
  [][/\ SearchSetsTerm
     /\ (PassTurn /\ last'.act = "page" /\ rd.search_term # <<>>
           /\ rd.rendered[last'.n + 1].successful)
          => HitCount(rd.search_term, last'.n) > 0
    ]_vars

\* the most positions of the prerender order a pass may go over, as stated
WindowOf(r) ==
  IF r.prerender > 0 THEN r.prerender
  ELSE IF r.search_term = <<>> THEN r.n_pages
  ELSE IF \E i \in 1..Len(r.rendered) : r.rendered[i].num_search_found = NoCount
       THEN 20
       ELSE r.n_pages

\* the pages at the first n positions of the prerender order
FirstOfOrder(r, n) ==
  {InterleavedNext(r.start_point, 0, r.n_pages, k) : k \in 0..(n - 1)}

\* C25: a page that a pass rasterizes is forced by PageNeedsReRender or is
\* among the first l positions of the prerender order around start_point
\* when the limit is l, among the first 20 when there is no limit, a term is
\* active and a page is unscanned; with no limit and no term a pass goes
\* over all N positions.
C25_WithinWindow ==
  [][/\ (PassTurn /\ last'.act = "page") =>
          \/ rd.need_rerender # <<>> /\ last'.n = Head(rd.need_rerender)
          \/ /\ last'.n \in FirstOfOrder(rd, WindowOf(rd))
             /\ rd'.iter <= WindowOf(rd)
     /\ (PassTurn /\ last'.act = "passEnd" /\ rd.prerender = 0
           /\ rd.search_term = <<>>) => rd'.iter = rd.n_pages
    ]_vars

\* on a document of 21 pages a pass of the search has ended after 20
\* positions: a page is left unscanned
C25_Witness ==
  /\ last.who = "R" /\ last.act = "passEnd"
  /\ rd.prerender = 0 /\ rd.search_term # <<>>
  /\ rd.n_pages = SEARCH_PASS_TAKE + 1 /\ rd.iter = SEARCH_PASS_TAKE
  /\ Cardinality({i \in 1..Len(rd.rendered) :
                    rd.rendered[i].num_search_found = NoCount}) = 1

\* the clear-all-images request of the frame of this turn has failed
ClearFailed == last.clear \notin {"none", "ok"}

\* the request the driver owes to an entry of the display list
OwedTo(e) == IF e.was = "Transferred" THEN "Display" ELSE "TransmitAndDisplay"

\* C26: a frame with nothing to change makes no request; any other frame
\* makes the clear-all-images request first; a frame that clears everything
\* makes no other; when the clear fails no entry is requested and no page
\* is reported as failed; otherwise every entry of the display list gets
\* exactly one request, in list order, Display for a Transferred entry and
\* TransmitAndDisplay for any other, whether or not an entry before it
\* failed, and an entry whose transmission succeeded is Transferred.
C26_DriverRequests ==
  last.who = "U" =>
    /\ last.frame \in {"none", "NoChange"} =>
          last.used = 0 /\ last.ops = <<>> /\ last.err = NoErr
    /\ last.frame \in {"ClearImages", "DisplayImages"} => last.clear # "none"
    /\ last.frame = "ClearImages" =>
          last.used = 1 /\ last.ops = <<>> /\ last.err.pages = <<>>
    /\ (last.frame = "DisplayImages" /\ ClearFailed) =>
          /\ last.used = 1 /\ last.ops = <<>> /\ last.err.pages = <<>>
          /\ \A i \in 1..Len(last.sentR) : last.sentR[i].t # "PageNeedsReRender"
    /\ (last.frame = "DisplayImages" /\ ~ClearFailed) =>
          /\ last.used = 1 + Len(last.list)
          /\ Len(last.ops) = Len(last.list)
          /\ \A i \in 1..Len(last.list) :
                /\ last.ops[i].page_num = last.list[i].page_num
                /\ last.ops[i].slot = last.list[i].slot
                /\ last.ops[i].op = OwedTo(last.list[i])
                /\ (last.ops[i].op = "TransmitAndDisplay" /\ last.ops[i].res = "ok")
                      => last.list[i].now = "Transferred"

\* a frame of two entries whose first transmission failed and whose second
\* entry was still requested, and succeeded
C26_Witness ==
  /\ last.who = "U" /\ last.frame = "DisplayImages" /\ Len(last.list) = 2
  /\ Len(last.ops) = 2
  /\ last.ops[1].op = "TransmitAndDisplay" /\ last.ops[1].res # "ok"
  /\ last.ops[2].op = "TransmitAndDisplay" /\ last.ops[2].res = "ok"
  /\ last.list[2].now = "Transferred"

\* the turn has drawn a frame of pages
DrewPages == last.who = "U" /\ last.frame = "DisplayImages"

\* the pages of the frame are the n pages from the current one, each with an
\* image, in reading order or reversed
RunOf(n) ==
  /\ \A i \in 1..n :
        /\ last.list[i].slot \in last.view.ready
        /\ last.list[i].slot = IF ui.r_to_l THEN last.view.page + (n - i)
                               ELSE last.view.page + (i - 1)
  /\ ui.last_render.pages_shown = n

\* n pages side by side respect max_wide and the width of the page area
WithinBounds(n) ==
  /\ ui.max_wide = 0 \/ n <= ui.max_wide
  /\ n * ImgW <= last.view.w

\* no run of n + 1 pages from the current one satisfies the bounds
Longest(n) ==
  \/ (last.view.page + n) \notin last.view.ready
  \/ ~WithinBounds(n + 1)

\* a frame other than the help page is drawn and the current page has no
\* image or does not fit: all images are cleared
EmptyRunClears ==
  (/\ last.who = "U" /\ last.frame \in {"ClearImages", "DisplayImages"}
   /\ ~last.view.help
   /\ (last.view.page \notin last.view.ready \/ ~WithinBounds(1)))
    => last.frame = "ClearImages" /\ last.list = <<>>

\* the frame of the turn as the claim describes it, zoomed or not
FrameLongestRun ==
  /\ DrewPages => /\ RunOf(Len(last.list))
                  /\ WithinBounds(Len(last.list))
                  /\ Longest(Len(last.list))
  /\ EmptyRunClears

\* the frame of the turn: the longest run unless the view is zoomed, the
\* current page alone when it is
FrameRunOrZoomed ==
  /\ DrewPages => /\ RunOf(Len(last.list))
                  /\ WithinBounds(Len(last.list))
                  /\ IF last.view.zoom THEN Len(last.list) = 1
                     ELSE Longest(Len(last.list))
  /\ EmptyRunClears

\* a step that draws no pages leaves pages_shown as it is
KeepsPagesShown ==
  ~DrewPages' => ui'.last_render.pages_shown = ui.last_render.pages_shown

\* the statement of C27 as written: every frame that draws pages shows the
\* longest run of ready pages from the current page within max_wide and
\* the width, reversed in right-to-left mode; an empty run clears all
\* images; pages_shown is the length of the last run drawn.
C27_LongestRunAlways == [][FrameLongestRun' /\ KeepsPagesShown]_vars

\* C27: every frame that draws pages while the view is not zoomed shows the
\* longest run of ready pages from the current page within max_wide and the
\* width, reversed in right-to-left mode; a frame drawn while zoomed shows
\* the current page alone; an empty run clears all images; pages_shown is
\* the length of the last run drawn.
C27_LongestRunUnlessZoomed == [][FrameRunOrZoomed' /\ KeepsPagesShown]_vars

\* a zoomed frame shows the current page alone although the next page has
\* an image and would fit beside it
C27_Witness ==
  /\ DrewPages /\ last.view.zoom /\ Len(last.list) = 1
  /\ last.list[1].slot = last.view.page
  /\ (last.view.page + 1) \in last.view.ready
  /\ WithinBounds(2)

\* the window of the Converter: at most CONVERTER_PRERENDER indices from
\* half of that below the anchor, inside the holding vector
WindowLo(c) == SatSub(c.page, CONVERTER_PRERENDER \div 2)
WindowHi(c) == Min(WindowLo(c) + CONVERTER_PRERENDER, Len(c.images))
InWindow(c, q) == WindowLo(c) <= q /\ q < WindowHi(c)
Pending(c, q) == q < Len(c.images) /\ c.images[q + 1] # NoInfo

\* the place of page q in the prerender order around the anchor: the anchor,
\* one above, one below, two above, two below, and so on, going round
\* inside the window
PlaceOf(c, q) ==
  LET w == WindowHi(c) - WindowLo(c)
      up == ((q - c.page) + w) % w
      down == ((c.page - q) + w) % w
  IN IF q = c.page THEN 0 ELSE Min((2 * up) - 1, 2 * down)

\* a step of the Converter that converts a page
Converts == cv.pc = "run" /\ last'.who = "C" /\ last'.act = "convert"

\* a step of the Converter that takes AddImg
TakesAddImg ==
  /\ cv.pc = "run" /\ toC # <<>> /\ toC' = Tail(toC) /\ Head(toC).t = "AddImg"
  /\ Head(toC).a < Len(cv.images)

\* every conversion takes the pending page that comes first in the
\* prerender order, inside the window, and emits it once; AddImg stores
\* the PageInfo over the one that waits
ConvertsFirstPending ==
  /\ Converts =>
       /\ Pending(cv, last'.n) /\ InWindow(cv, last'.n)
       /\ \A q \in 0..(Len(cv.images) - 1) :
             (Pending(cv, q) /\ InWindow(cv, q)) => PlaceOf(cv, last'.n) <= PlaceOf(cv, q)
       /\ fromC' = Append(fromC, ConvertedPage("ConvertedPage", last'.n,
                                               cv.images[last'.n + 1]))
       /\ ~Pending(cv', last'.n)
       /\ \A q \in 0..(Len(cv.images) - 1) :
             q # last'.n => cv'.images[q + 1] = cv.images[q + 1]
  /\ TakesAddImg =>
       /\ cv'.images[Head(toC).a + 1] = Head(toC).b
       /\ fromC' = fromC

\* C28: a conversion takes the pending PageInfo that comes first in the
\* prerender order around the anchor, only inside the window of at most
\* prerender indices, and emits it once; an AddImg replaces the PageInfo
\* that waits for its page; a page that is pending inside the window is
\* eventually emitted, unless the window moves away from it.
C28_ConvertsInOrder ==
  /\ [][ConvertsFirstPending]_vars
  /\ \A q \in {0, 2, CONVERTER_PRERENDER + 1} :
       (Pending(cv, q) /\ InWindow(cv, q))
         ~> (~Pending(cv, q) \/ ~InWindow(cv, q))

\* with the anchor at page 1 of 22 pages, page 2 has been converted while
\* page 0 waits inside the window and the last page outside of it
C28_Witness ==
  /\ last.who = "C" /\ last.act = "convert" /\ last.n = 2
  /\ cv.page = 1 /\ Len(cv.images) = CONVERTER_PRERENDER + 2
  /\ Pending(cv, 0) /\ Pending(cv, CONVERTER_PRERENDER + 1)
  /\ ~InWindow(cv, CONVERTER_PRERENDER + 1)

\* the turn of the UI loop that takes Enter while the go-to-page prompt is open
EntersGoTo ==
  /\ ui.pc = "run" /\ ui.bottom_msg.k = "Input_GoToPage"
  /\ last'.who = "U" /\ last'.act = "event" /\ last'.ev = Event("Enter", "", 0)

\* C29: Enter in the go-to-page prompt with the number k typed: when k - 1
\* (0 for k = 0) is below the number of pages, it becomes the current page
\* and JumpToPage(k - 1) goes to the Renderer and GoToPage(k - 1) to the
\* Converter; otherwise the page stays, nothing is sent and the bottom bar
\* shows an error; the prompt is closed either way.
C29_GoToPageChecked ==
  [][EntersGoTo =>
       LET zero_page == SatSub(ui.bottom_msg.n, 1)
       IN /\ ui'.bottom_msg.k \notin {"Input_GoToPage", "Input_Search"}
          /\ IF zero_page < Len(ui.rendered)
             THEN /\ ui'.page = zero_page
                  /\ last'.sentR = <<RenderNotif("JumpToPage", zero_page, <<>>)>>
                  /\ last'.sentC = <<ConverterMsg("GoToPage", zero_page, 0)>>
                  /\ toR' = toR \o last'.sentR
                  /\ toC' = toC \o last'.sentC
             ELSE /\ ui'.page = ui.page
                  /\ last'.sentR = <<>> /\ last'.sentC = <<>>
                  /\ toR' = toR /\ toC' = toC
                  /\ ui'.bottom_msg.k = "Error"
    ]_vars

\* page 4 was asked for in a document of 3 pages: the page has stayed, an
\* error is shown and nothing was sent
C29_Witness ==
  /\ last.who = "U" /\ last.act = "event" /\ last.ev = Event("Enter", "", 0)
  /\ Len(ui.rendered) = MaxPages + 1
  /\ ui.bottom_msg = Msg("Error", MaxPages + 2, <<"jump">>)
  /\ last.sentR = <<>> /\ last.sentC = <<>>

Prompts == {"Input_GoToPage", "Input_Search"}

\* the turn of the UI loop that takes the key ev
Presses(ev) == ui.pc = "run" /\ last'.who = "U" /\ last'.ev = ev

\* a turn outside of a prompt that shows another message, Escape apart
SetsMessage ==
  /\ ui.pc = "run" /\ last'.who = "U" /\ last'.ev.k # "Esc"
  /\ ui.bottom_msg.k \notin Prompts
  /\ ui'.bottom_msg # ui.bottom_msg

\* Escape quits exactly when no help page is shown and the message is Help
EscQuits ==
  Presses(Event("Esc", "", 0)) =>
    (ui'.pc = "quit" <=> (~ui.showing_help_msg /\ ui.bottom_msg = MsgHelp))

\* Escape that does not quit closes the help page or puts back the saved
\* message, Help when none is saved
EscPops ==
  (Presses(Event("Esc", "", 0)) /\ ui'.pc # "quit") =>
    IF ui.showing_help_msg
    THEN ~ui'.showing_help_msg /\ ui'.bottom_msg = ui.bottom_msg
    ELSE ui'.bottom_msg = (IF ui.prev_msg = MsgNone THEN MsgHelp ELSE ui.prev_msg)

\* q quits outside of a prompt; in the search prompt it is appended to the
\* term and in the go-to-page prompt it changes nothing
QuitKey ==
  Presses(Event("Char", "q", 0)) =>
    /\ ui'.pc = "quit" <=> ui.bottom_msg.k \notin Prompts
    /\ ui.bottom_msg.k = "Input_Search" =>
          ui'.bottom_msg = [ui.bottom_msg EXCEPT !.s = Append(ui.bottom_msg.s, "q")]
    /\ ui.bottom_msg.k = "Input_GoToPage" => ui'.bottom_msg = ui.bottom_msg

\* the statement of C30 as written: setting a message saves the one it
\* replaces; Escape quits only with no help page and the message Help, and
\* otherwise pops and leaves the saved slot empty; q quits unless a prompt is
\* active.
C30_EscAlwaysEmptiesSlot ==
  [][/\ SetsMessage => ui'.prev_msg = ui.bottom_msg
     /\ EscQuits /\ EscPops /\ QuitKey
     /\ (Presses(Event("Esc", "", 0)) /\ ui'.pc # "quit") => ui'.prev_msg = MsgNone
    ]_vars

\* C30: setting a message saves the one it replaces; Escape quits only with
\* no help page and the message Help; otherwise it closes the help page and
\* leaves message and saved slot as they are, or, with no help page, puts
\* back the saved message (Help when none is saved) and leaves the slot
\* empty; q quits unless a prompt is active.
C30_EscPopsOneLevel ==
  [][/\ SetsMessage => ui'.prev_msg = ui.bottom_msg
     /\ EscQuits /\ EscPops /\ QuitKey
     /\ (Presses(Event("Esc", "", 0)) /\ ui'.pc # "quit") =>
           ui'.prev_msg = (IF ui.showing_help_msg THEN ui.prev_msg ELSE MsgNone)
    ]_vars

\* Escape has closed the help page and a message is still saved
C30_Witness ==
  /\ last.who = "U" /\ last.ev = Event("Esc", "", 0) /\ ui.pc = "run"
  /\ ~ui.showing_help_msg /\ ui.prev_msg # MsgNone

\* Enter in the go-to-page prompt with a page of the document typed, while
\* the message that the prompt covered is the search-results message
JumpsOverResults ==
  /\ EntersGoTo
  /\ ui.prev_msg.k = "SearchResults"
  /\ SatSub(ui.bottom_msg.n, 1) < Len(ui.rendered)

\* C31: after the user has jumped to a page with g, digits and Enter while
\* the search-results message was on the bottom bar, the bottom bar shows
\* the search-results message again.
C31_ResultsShownAfterJump ==
  [][JumpsOverResults => ui'.bottom_msg = ui.prev_msg]_vars

----------------------------------------------------------------------------
(* The Renderer with a prerender limit of one page, while the user turns   *)
(* pages forth and back and searches for one term after another            *)

InitHighlights ==
  InitWith({MaxPages}, {1}, {8}, {FALSE}, {FALSE}, {0}, MaxActs + 2)

HighlightEvents == {Event("Char", c, 0) : c \in {"/", "l", "h"}}

NextHighlights ==
  \/ UiStart
  \/ RenderOpen \/ RenderWaitArea \/ RenderPass \/ RenderPoll \/ RenderSweep
  \/ RenderIdle
  \/ UiRenderInfo(FALSE)
  \/ UserDoes(HighlightEvents, FALSE)

SpecHighlights == InitHighlights /\ [][NextHighlights]_vars

\* the Renderer is blocked on its channel and has taken every message
RendererSettled == rd.pc = "idle" /\ toR = <<>>

\* the last Page sent for the page carried as many highlight rectangles as
\* the page has hits for the current term
HighlightsCurrent(page) == <<page, HitCount(rd.search_term, page)>> \in rd.sent

\* C32: whenever the Renderer is idle with every message processed, each page
\* it marks successful was last rasterized and sent with the highlights of
\* the current search term (none when no term is set), after any sequence of
\* searches.
C32_HighlightsCurrent ==
  RendererSettled =>
    \A i \in 1..Len(rd.rendered) :
      rd.rendered[i].successful => HighlightsCurrent(i - 1)

\* the UI takes a ConvertedPage from the Converter
TakesConvertedPage ==
  /\ ui.pc = "run"
  /\ fromC # <<>> /\ Head(fromC).t = "ConvertedPage"
  /\ fromC' = Tail(fromC)

\* C33: every ConvertedPage the UI takes from the Converter has num below the
\* UI's current number of slots, for every interleaving of the channels of
\* the Renderer and the Converter, so storing the image never indexes
\* outside of the Page Buffer.
C33_ConvertedPageInRange ==
  [][TakesConvertedPage =>
       /\ Head(fromC).a < Len(ui.rendered)
       /\ ui'.pc # "panicked"]_vars

\* the Renderer takes a message off its channel
ReceivesNotif == toR # <<>> /\ toR' = Tail(toR) /\ last'.who = "R"

\* what the message asks for is done: the handle_notif! macro has run on it,
\* or the first Area has been stored, or the Reload has ended the wait for a
\* file that opens
NotifApplied ==
  \/ \E ctx \in {"pass", "sweep", "idle"} : rd' = handle_notif(rd, Head(toR), ctx)
  \/ Head(toR).t = "Area" /\ rd'.preserved_area = Head(toR).n
  \/ Head(toR).t = "Reload" /\ rd'.pc = "open"

\* C34: every RenderNotif the Renderer receives is applied, none is silently
\* discarded, whether it arrives before the first Area, while the Renderer
\* waits for a Reload after a failed open, during a pass, during the search
\* sweep or while idle.
C34_NoNotifDiscarded == [][ReceivesNotif => NotifApplied]_vars

\* C35: the page number attached to each Kitty display entry is the page
\* whose image the entry carries, in left-to-right and in right-to-left mode
\* and for any number of pages shown side by side.
C35_EntryNamesItsPage ==
  \A i \in 1..Len(last.list) : last.list[i].page_num = last.list[i].slot

\* nothing is left to do unless the user, the file watcher or a failure
\* acts: the channels are empty, the Renderer is blocked on its channel, the
\* Converter has no page to convert and the UI waits for an event
AtRest ==
  /\ ui.pc = "run"
  /\ toR = <<>> /\ fromR = <<>> /\ toC = <<>> /\ fromC = <<>>
  /\ rd.pc \in {"idle", "waitArea", "waitReload"}
  /\ cv.pc = "run" /\ ~next_page(cv).found

\* C36: if from some point on no input, file event or error occurs, then
\* eventually the UI's slot for the current page holds an image.  Once the
\* system is at rest nothing changes any more without such an event, so the
\* slot of the current page holds an image in every state at rest.
C36_CurrentPageArrives ==
  (AtRest /\ ui.page < Len(ui.rendered)) => ui.rendered[ui.page + 1].img # "None"

\* all channels are empty, the Renderer is blocked idle and the Converter
\* awaits a message
Quiescent == AtRest /\ rd.pc = "idle"

\* C37: whenever the system is quiescent, the Renderer's start_point, the
\* Converter's anchor and the UI's current page are equal, after any sequence
\* of navigation, go-to, jumps between results and document reloads.
C37_CentresAgree ==
  Quiescent => (rd.start_point = cv.page /\ cv.page = ui.page)

----------------------------------------------------------------------------
(* The viewer started with -p 1 while the user turns pages forth and back  *)
(* and searches: the Renderer, the Converter and the UI                    *)

InitCounts == InitWith({MaxPages}, {1}, {8}, {FALSE}, {FALSE}, {0}, MaxActs + 1)

CountEvents == {Event("Char", c, 0) : c \in {"/", "l", "h"}}

NextCounts ==
  \/ UiStart
  \/ RenderOpen \/ RenderWaitArea \/ RenderPass \/ RenderPoll \/ RenderSweep
  \/ RenderIdle
  \/ Converter
  \/ UiMessages(FALSE)
  \/ UserDoes(CountEvents, FALSE)

SpecCounts == InitCounts /\ [][NextCounts]_vars

\* C38: whenever the system is quiescent with a non-empty search term, the
\* UI's num_results of every page whose count it knows equals that page's
\* hit count for the current term; a count computed earlier never remains in
\* the UI after the counts of the new term have arrived.
C38_CountsCurrent ==
  (Quiescent /\ rd.search_term # <<>>) =>
    \A i \in 1..Len(ui.rendered) :
      ui.rendered[i].num_results # NoCount =>
        ui.rendered[i].num_results = HitCount(rd.search_term, i - 1)

\* the UI has processed the NumPages of every open of the Renderer
NumPagesTaken == \A i \in 1..Len(fromR) : fromR[i].t # "NumPages"

\* the Renderer has sent the page since it opened the document it holds
SentSinceOpen(page) == \E x \in rd.sent : x[1] = page

\* C39: after the UI has processed NumPages for a reloaded document, a
\* ConvertedPage produced from a Page of the previous document is never
\* stored into the Page Buffer: every ConvertedPage the UI stores then is of
\* a page that the Renderer has sent since it opened the document.
C39_NoImageOfOldDocument ==
  [][(TakesConvertedPage /\ NumPagesTaken /\ Head(fromC).a < Len(ui.rendered))
       => SentSinceOpen(Head(fromC).a)]_vars

\* C40: handling any input event and drawing any frame in any reachable
\* state of the UI, the states before the first NumPages (empty Page Buffer)
\* and with the zoom toggled on included, never indexes outside of the Page
\* Buffer and never underflows.
C40_UiStaysInBuffer == ui.pc # "panicked"

====
